---- MODULE Spec2Model ----
(***************************************************************************)
(* A model of odin's schema walker (pkg/schema/schema.go), declaration     *)
(* scanner (WalkDeclarations) and reference resolver (pkg/docs/resolve.go) *)
(*                                                                         *)
(* Text is modelled as a sequence of one-character strings, so that        *)
(* prefixes, case folding, splitting and joining are computed and not      *)
(* assumed.  A Type Value (cue.Value) is a record holding what the walker  *)
(* reads from it: its kind, attributes, reference path, expression,        *)
(* default, doc comments, fields, pattern constraints and definitions.     *)
(***************************************************************************)
EXTENDS Integers, Sequences, FiniteSets, TLC

VARIABLES
    value,      \* the Type Value handed to WalkSchema (under construction while pc = "build")
    pkgValue,   \* the Type Value handed to WalkDeclarations
    templates,  \* the discovered ComponentTemplate sequence
    pc,         \* "build" while inputs are assembled, then the name of the last call
    expandOpt,  \* the expand option of the last call
    fieldsOut,  \* the []*SchemaField returned by the last WalkSchema call
    declsOut,   \* the []*Declaration returned by the last WalkDeclarations call
    reference,  \* the reference string of the last ResolveReference call
    resolved,   \* what the last ResolveReference call returned: [tmpl, err]
    firstOut,   \* per expand option, the result of the first WalkSchema call that used it
    rendered,   \* the lines the last formatter call wrote to its writer
    files,      \* the files under the output directory: path -> content
    runErr,     \* the error the last docs command returned, "none" if it returned nil
    walked,     \* the templates whose ConfigSchema the last docs command called, in order
    opts,       \* the Format, OutputPath and NoSummary options of the last docs command
    raw,        \* the OCI reference string handed to ParseReference
    ociRef,     \* what ParseReference(raw) returned
    ociAgain    \* what ParseReference returned for the String() of ociRef

vars == <<value, pkgValue, templates, pc, expandOpt, fieldsOut, declsOut, reference, resolved,
          firstOut, rendered, files, runErr, walked, opts, raw, ociRef,
                   ociAgain>>

(***************************************************************************)
(* Bounds of the model.                                                    *)
(***************************************************************************)
MaxFields == 2
MaxPatterns == 1
MaxDecls == 2
MaxTemplates == 3
MaxTokens == 4
MaxComponents == 3

(***************************************************************************)
(* Text helpers (Go's strings package on ASCII text).                      *)
(***************************************************************************)
HasPrefix(s, p) == Len(s) >= Len(p) /\ SubSeq(s, 1, Len(p)) = p

TrimPrefix(s, p) == IF HasPrefix(s, p) THEN SubSeq(s, Len(p) + 1, Len(s)) ELSE s

RECURSIVE TrimRight(_, _)
TrimRight(s, cutset) ==
    IF Len(s) > 0 /\ s[Len(s)] \in cutset
    THEN TrimRight(SubSeq(s, 1, Len(s) - 1), cutset)
    ELSE s

RECURSIVE TrimLeft(_, _)
TrimLeft(s, cutset) ==
    IF Len(s) > 0 /\ s[1] \in cutset
    THEN TrimLeft(SubSeq(s, 2, Len(s)), cutset)
    ELSE s

WhiteSpace == {" ", "\n", "\t"}

TrimSpace(s) == TrimLeft(TrimRight(s, WhiteSpace), WhiteSpace)

RECURSIVE Join(_, _)
Join(parts, sep) ==
    IF Len(parts) = 0 THEN <<>>
    ELSE IF Len(parts) = 1 THEN parts[1]
    ELSE parts[1] \o sep \o Join(Tail(parts), sep)

UpperCase == <<"A", "B", "C", "D", "E", "F", "G", "H", "I", "J", "K", "L", "M",
               "N", "O", "P", "Q", "R", "S", "T", "U", "V", "W", "X", "Y", "Z">>

LowerCase == <<"a", "b", "c", "d", "e", "f", "g", "h", "i", "j", "k", "l", "m",
               "n", "o", "p", "q", "r", "s", "t", "u", "v", "w", "x", "y", "z">>

ToLowerChar(c) ==
    IF \E i \in DOMAIN UpperCase : UpperCase[i] = c
    THEN LowerCase[CHOOSE i \in DOMAIN UpperCase : UpperCase[i] = c]
    ELSE c

ToLower(s) == [i \in DOMAIN s |-> ToLowerChar(s[i])]

EqualFold(a, b) == ToLower(a) = ToLower(b)

\* The positions at which sub occurs in s.
Occurrences(s, sub) ==
    {i \in 1..(Len(s) - Len(sub) + 1) : SubSeq(s, i, i + Len(sub) - 1) = sub}

Contains(s, sub) == Occurrences(s, sub) # {}

\* strings.Index and strings.LastIndex, 1-based, 0 for Go's -1.
Index(s, sub) ==
    IF Contains(s, sub)
    THEN CHOOSE i \in Occurrences(s, sub) : \A j \in Occurrences(s, sub) : i <= j
    ELSE 0

LastIndex(s, sub) ==
    IF Contains(s, sub)
    THEN CHOOSE i \in Occurrences(s, sub) : \A j \in Occurrences(s, sub) : i >= j
    ELSE 0

(***************************************************************************)
(* The Type Value (cue.Value) and the SchemaField / Declaration records.   *)
(***************************************************************************)
NoExpr == [op |-> "none", args |-> <<>>]

TypeValue(kind, attrs, refPath, expr, fields, pats) ==
    [kind |-> kind, attrs |-> attrs, refPath |-> refPath, expr |-> expr,
     dflt |-> <<>>, lit |-> <<>>, docs |-> <<>>, fields |-> fields,
     pats |-> pats, defs |-> <<>>, iterErr |-> FALSE, patErr |-> FALSE]

SchemaField(name, optional, required, isPattern) ==
    [Name |-> name, Doc |-> <<>>, Type |-> <<>>, Optional |-> optional,
     Required |-> required, IsPattern |-> isPattern, Default |-> <<>>,
     Children |-> <<>>]

DeclarationRef == "ref"
DeclarationExt == "ext"
DeclarationOther == "other"

Declaration(name, doc, category) ==
    [Name |-> name, Doc |-> doc, Category |-> category, Type |-> <<>>,
     Children |-> <<>>]

(***************************************************************************)
(* What the walker reads from a Type Value.                                *)
(***************************************************************************)
\* v.Attributes(cue.ValueAttr): the field and declaration attributes, in order.
Attributes(v) == v.attrs

\* a.String(0): the first positional argument, an error when there is none.
AttrString0(a) ==
    IF Len(a.args) >= 1 THEN [ok |-> TRUE, arg |-> a.args[1]]
    ELSE [ok |-> FALSE, arg |-> ""]

\* value.Fields(cue.Optional(true)): regular, optional and required fields.
FieldsOptional(v) ==
    IF v.iterErr \/ v.kind # "struct" THEN [err |-> TRUE, items |-> <<>>]
    ELSE [err |-> FALSE, items |-> v.fields]

\* value.Fields(cue.Patterns(true)): the non-optional fields, then the pattern
\* constraints.
FieldsPatterns(v) ==
    IF v.iterErr \/ v.patErr \/ v.kind # "struct" THEN [err |-> TRUE, items |-> <<>>]
    ELSE [err |-> FALSE,
          items |-> SelectSeq(v.fields, LAMBDA e : e.ct # "optional") \o v.pats]

\* value.Fields(cue.Definitions(true)): the regular fields and the definitions.
FieldsDefinitions(v) ==
    IF v.iterErr \/ v.kind # "struct" THEN [err |-> TRUE, items |-> <<>>]
    ELSE [err |-> FALSE,
          items |-> SelectSeq(v.fields, LAMBDA e : e.ct # "optional") \o v.defs]

\* sel.String(): the field name with its constraint marker.
SelectorString(e) ==
    CASE e.ct = "optional" -> e.name \o <<"?">>
      [] e.ct = "required" -> e.name \o <<"!">>
      [] OTHER -> e.name

(***************************************************************************)
(* pkg/schema/schema.go                                                    *)
(***************************************************************************)
\* hasOdinHidden looking at the first attribute only.
hasOdinHidden_FirstAttributeOnly(v) ==
    /\ Len(Attributes(v)) >= 1
    /\ Attributes(v)[1].name = "odin"
    /\ AttrString0(Attributes(v)[1]).ok
    /\ AttrString0(Attributes(v)[1]).arg = "hidden"

hasOdinHidden(v) ==
    \E i \in DOMAIN Attributes(v) :
        /\ Attributes(v)[i].name = "odin"
        /\ AttrString0(Attributes(v)[i]).ok
        /\ AttrString0(Attributes(v)[i]).arg = "hidden"

formatListType(v) == <<"[", ".", ".", ".", "]">>

OpenStruct == <<"{", ".", ".", ".", "}">>

formatKind(k) ==
    CASE k = "string" -> <<"s", "t", "r", "i", "n", "g">>
      [] k = "bool" -> <<"b", "o", "o", "l">>
      [] k = "int" -> <<"i", "n", "t">>
      [] k = "float" -> <<"f", "l", "o", "a", "t">>
      [] k = "number" -> <<"n", "u", "m", "b", "e", "r">>
      [] k = "bytes" -> <<"b", "y", "t", "e", "s">>
      [] k = "null" -> <<"n", "u", "l", "l">>
      [] k = "struct" -> <<"s", "t", "r", "u", "c", "t">>
      [] k = "list" -> <<"l", "i", "s", "t">>
      [] OTHER -> <<"_">>

\* fmt.Sprint(v): the value printed as CUE source.  A reference prints as the
\* name it refers to, a literal as itself, a struct as its declarations
\* between braces, a basic type as its name.
Sprint(v) ==
    CASE Len(v.refPath) > 0 -> v.refPath[Len(v.refPath)].name
      [] v.lit # <<>> /\ v.kind = "string" -> <<"\"">> \o v.lit[1] \o <<"\"">>
      [] v.lit # <<>> -> v.lit[1]
      [] v.kind = "struct" ->
            <<"{">> \o Join([i \in DOMAIN v.fields |-> v.fields[i].name], <<",", " ">>)
                   \o <<"}">>
      [] v.kind = "list" -> <<"[", ".", ".", ".", "]">>
      [] OTHER -> formatKind(v.kind)

\* A concrete value carries its text in lit: v.String(), v.Bool(), v.Int64()
\* and v.Float64() succeed on it and fail on anything else.
formatValue(v) ==
    CASE v.kind = "string" /\ v.lit # <<>> -> <<"\"">> \o v.lit[1] \o <<"\"">>
      [] v.kind \in {"bool", "int", "float"} /\ v.lit # <<>> -> v.lit[1]
      [] OTHER -> Sprint(v)

formatDisjunction(args) ==
    Join([i \in DOMAIN args |-> formatValue(args[i])], <<" ", "|", " ">>)

\* The last selector of a reference path when it names a definition.
RefPathDefinition(path) ==
    IF Len(path) > 0 /\ path[Len(path)].isDef
    THEN [ok |-> TRUE, name |-> path[Len(path)].name]
    ELSE [ok |-> FALSE, name |-> <<>>]

definitionRefName(v) ==
    IF RefPathDefinition(v.refPath).ok THEN RefPathDefinition(v.refPath)
    ELSE IF v.expr.op = "and"
              /\ \E i \in DOMAIN v.expr.args : RefPathDefinition(v.expr.args[i].refPath).ok
         THEN LET i == CHOOSE j \in DOMAIN v.expr.args :
                          /\ RefPathDefinition(v.expr.args[j].refPath).ok
                          /\ \A k \in 1..(j - 1) :
                                 ~RefPathDefinition(v.expr.args[k].refPath).ok
              IN RefPathDefinition(v.expr.args[i].refPath)
         ELSE [ok |-> FALSE, name |-> <<>>]

\* Doc(): the comment groups joined by newlines and trimmed.
docText(v) ==
    IF Len(v.docs) > 0 THEN TrimSpace(Join(v.docs, <<"\n">>)) ELSE <<>>

RECURSIVE walkFields(_, _)
RECURSIVE populateFieldValue(_, _, _)

\* populateFieldValue collapsing a definition reference whatever expand says.
populateFieldValue_IgnoresExpand(f, v, expand) ==
    LET f1 == IF v.dflt # <<>> THEN [f EXCEPT !.Default = formatValue(v.dflt[1])] ELSE f
        kind == v.kind
    IN  IF v.expr.op = "or" /\ Len(v.expr.args) > 0
        THEN [f1 EXCEPT !.Type = formatDisjunction(v.expr.args)]
        ELSE IF kind = "struct" /\ definitionRefName(v).ok
        THEN [f1 EXCEPT !.Type = definitionRefName(v).name]
        ELSE IF kind = "struct"
        THEN LET children == walkFields(v, expand)
             IN  IF Len(children) > 0
                 THEN [f1 EXCEPT !.Children = children]
                 ELSE [f1 EXCEPT !.Type = OpenStruct]
        ELSE IF kind = "list"
        THEN [f1 EXCEPT !.Type = formatListType(v)]
        ELSE [f1 EXCEPT !.Type = formatKind(kind)]

\* populateFieldValue returning once it has set the default.
populateFieldValue_ReturnsAfterDefault(f, v, expand) ==
    LET kind == v.kind
    IN  IF v.dflt # <<>>
        THEN [f EXCEPT !.Default = formatValue(v.dflt[1])]
        ELSE IF v.expr.op = "or" /\ Len(v.expr.args) > 0
        THEN [f EXCEPT !.Type = formatDisjunction(v.expr.args)]
        ELSE IF ~expand /\ kind = "struct" /\ definitionRefName(v).ok
        THEN [f EXCEPT !.Type = definitionRefName(v).name]
        ELSE IF kind = "struct"
        THEN LET children == walkFields(v, expand)
             IN  IF Len(children) > 0
                 THEN [f EXCEPT !.Children = children]
                 ELSE [f EXCEPT !.Type = OpenStruct]
        ELSE IF kind = "list"
        THEN [f EXCEPT !.Type = formatListType(v)]
        ELSE [f EXCEPT !.Type = formatKind(kind)]

\* populateFieldValue looking at the kind before the expression.
populateFieldValue_KindBeforeDisjunction(f, v, expand) ==
    LET f1 == IF v.dflt # <<>> THEN [f EXCEPT !.Default = formatValue(v.dflt[1])] ELSE f
        kind == v.kind
    IN  IF ~expand /\ kind = "struct" /\ definitionRefName(v).ok
        THEN [f1 EXCEPT !.Type = definitionRefName(v).name]
        ELSE IF kind = "struct"
        THEN LET children == walkFields(v, expand)
             IN  IF Len(children) > 0
                 THEN [f1 EXCEPT !.Children = children]
                 ELSE [f1 EXCEPT !.Type = OpenStruct]
        ELSE IF v.expr.op = "or" /\ Len(v.expr.args) > 0
        THEN [f1 EXCEPT !.Type = formatDisjunction(v.expr.args)]
        ELSE IF kind = "list"
        THEN [f1 EXCEPT !.Type = formatListType(v)]
        ELSE [f1 EXCEPT !.Type = formatKind(kind)]

\* populateFieldValue marking a struct with children as open struct too, as
\* the declaration scanner does.
populateFieldValue_TypeWithChildren(f, v, expand) ==
    LET f1 == IF v.dflt # <<>> THEN [f EXCEPT !.Default = formatValue(v.dflt[1])] ELSE f
        kind == v.kind
    IN  IF v.expr.op = "or" /\ Len(v.expr.args) > 0
        THEN [f1 EXCEPT !.Type = formatDisjunction(v.expr.args)]
        ELSE IF ~expand /\ kind = "struct" /\ definitionRefName(v).ok
        THEN [f1 EXCEPT !.Type = definitionRefName(v).name]
        ELSE IF kind = "struct"
        THEN [f1 EXCEPT !.Children = walkFields(v, expand), !.Type = OpenStruct]
        ELSE IF kind = "list"
        THEN [f1 EXCEPT !.Type = formatListType(v)]
        ELSE [f1 EXCEPT !.Type = formatKind(kind)]

populateFieldValue(f, v, expand) ==
    LET f1 == IF v.dflt # <<>> THEN [f EXCEPT !.Default = formatValue(v.dflt[1])] ELSE f
        kind == v.kind
    IN  IF v.expr.op = "or" /\ Len(v.expr.args) > 0
        THEN [f1 EXCEPT !.Type = formatDisjunction(v.expr.args)]
        ELSE IF ~expand /\ kind = "struct" /\ definitionRefName(v).ok
        THEN [f1 EXCEPT !.Type = definitionRefName(v).name]
        ELSE IF kind = "struct"
        THEN LET children == walkFields(v, expand)
             IN  IF Len(children) > 0
                 THEN [f1 EXCEPT !.Children = children]
                 ELSE [f1 EXCEPT !.Type = OpenStruct]
        ELSE IF kind = "list"
        THEN [f1 EXCEPT !.Type = formatListType(v)]
        ELSE [f1 EXCEPT !.Type = formatKind(kind)]

fieldFromIter(e, expand) ==
    LET name == TrimRight(SelectorString(e), {"?", "!"})
        f == [SchemaField(name, e.ct = "optional", e.ct = "required", FALSE)
                 EXCEPT !.Doc = docText(e.value)]
    IN  populateFieldValue(f, e.value, expand)

patternField(e, expand) ==
    populateFieldValue(SchemaField(SelectorString(e), FALSE, FALSE, TRUE), e.value, expand)

\* walkFields giving up when the pattern pass fails.
walkFields_PatternErrorReturnsNil(v, expand) ==
    IF FieldsOptional(v).err \/ FieldsPatterns(v).err THEN <<>>
    ELSE LET regular == SelectSeq(FieldsOptional(v).items,
                                  LAMBDA e : ~hasOdinHidden(e.value))
             patterns == SelectSeq(FieldsPatterns(v).items,
                                   LAMBDA e : e.ct = "pattern" /\ ~hasOdinHidden(e.value))
         IN  [i \in DOMAIN regular |-> fieldFromIter(regular[i], expand)]
             \o [i \in DOMAIN patterns |-> patternField(patterns[i], expand)]

\* walkFields running the pattern pass before the field pass.
walkFields_PatternsFirst(v, expand) ==
    IF FieldsOptional(v).err THEN <<>>
    ELSE LET regular == SelectSeq(FieldsOptional(v).items,
                                  LAMBDA e : ~hasOdinHidden(e.value))
             patterns == IF FieldsPatterns(v).err THEN <<>>
                         ELSE SelectSeq(FieldsPatterns(v).items,
                                        LAMBDA e : e.ct = "pattern" /\ ~hasOdinHidden(e.value))
         IN  [i \in DOMAIN patterns |-> patternField(patterns[i], expand)]
             \o [i \in DOMAIN regular |-> fieldFromIter(regular[i], expand)]

walkFields(v, expand) ==
    IF FieldsOptional(v).err THEN <<>>
    ELSE LET regular == SelectSeq(FieldsOptional(v).items,
                                  LAMBDA e : ~hasOdinHidden(e.value))
             patterns == IF FieldsPatterns(v).err THEN <<>>
                         ELSE SelectSeq(FieldsPatterns(v).items,
                                        LAMBDA e : e.ct = "pattern" /\ ~hasOdinHidden(e.value))
         IN  [i \in DOMAIN regular |-> fieldFromIter(regular[i], expand)]
             \o [i \in DOMAIN patterns |-> patternField(patterns[i], expand)]

\* WalkSchema with a walkOptions value shared by all calls: a call made
\* without WithExpand(true) inherits the expand of the call before it.
WalkSchema_SharedOptions(v, expand) ==
    walkFields(v, expand \/ (pc = "WalkSchema" /\ expandOpt))

WalkSchema(v, expand) == walkFields(v, expand)

\* The first attribute named odin, as the loop with break finds it.
firstOdinAttr(v) ==
    IF \E i \in DOMAIN Attributes(v) : Attributes(v)[i].name = "odin"
    THEN LET i == CHOOSE j \in DOMAIN Attributes(v) :
                     /\ Attributes(v)[j].name = "odin"
                     /\ \A k \in 1..(j - 1) : Attributes(v)[k].name # "odin"
         IN  [found |-> TRUE, attr |-> Attributes(v)[i]]
    ELSE [found |-> FALSE, attr |-> [name |-> "", args |-> <<>>]]

\* declCategory with the default branch falling into the ref case.
declCategory_DefaultIsRef(odinAttr) ==
    IF AttrString0(odinAttr).ok
    THEN CASE AttrString0(odinAttr).arg = "ext" -> DeclarationExt
           [] AttrString0(odinAttr).arg = "hidden" -> "skip"
           [] OTHER -> DeclarationRef
    ELSE DeclarationOther

\* The category switch of WalkDeclarations; "skip" stands for its continue.
declCategory(odinAttr) ==
    IF AttrString0(odinAttr).ok
    THEN CASE AttrString0(odinAttr).arg = "ref" -> DeclarationRef
           [] AttrString0(odinAttr).arg = "ext" -> DeclarationExt
           [] AttrString0(odinAttr).arg = "hidden" -> "skip"
           [] OTHER -> DeclarationOther
    ELSE DeclarationOther

\* declKept without the private-prefix test.
declKept_NoPrivateSkip(e) ==
    /\ firstOdinAttr(e.value).found
    /\ declCategory(firstOdinAttr(e.value).attr) # "skip"

\* Whether the loop body of WalkDeclarations reaches its append for entry e.
declKept(e) ==
    /\ ~HasPrefix(SelectorString(e), <<"_", "#">>)
    /\ firstOdinAttr(e.value).found
    /\ declCategory(firstOdinAttr(e.value).attr) # "skip"

\* The loop body of WalkDeclarations for an entry it keeps.
declFromIter(e, expand) ==
    LET v == e.value
        kind == v.kind
        decl == Declaration(SelectorString(e), docText(v),
                            declCategory(firstOdinAttr(v).attr))
    IN  IF kind = "struct"
        THEN IF ~expand /\ definitionRefName(v).ok
             THEN [decl EXCEPT !.Type = definitionRefName(v).name]
             ELSE LET children == walkFields(v, expand)
                  IN  IF Len(children) > 0
                      THEN [decl EXCEPT !.Children = children, !.Type = OpenStruct]
                      ELSE [decl EXCEPT !.Type = OpenStruct]
        ELSE IF kind = "list"
        THEN [decl EXCEPT !.Type = <<"[", ".", ".", ".", "]">>]
        ELSE [decl EXCEPT !.Type = formatKind(kind)]

WalkDeclarations(v, expand) ==
    IF FieldsDefinitions(v).err THEN <<>>
    ELSE LET kept == SelectSeq(FieldsDefinitions(v).items, declKept)
         IN  [i \in DOMAIN kept |-> declFromIter(kept[i], expand)]

(***************************************************************************)
(* pkg/schema/format.go.  The writer receives lines; a line is what one    *)
(* Fprintf or Fprintln call prints: its kind, its indentation and the      *)
(* arguments of the format.                                                *)
(***************************************************************************)
Line(kind, indent, text, pad, type, dflt) ==
    [kind |-> kind, indent |-> indent, text |-> text, pad |-> pad, type |-> type,
     dflt |-> dflt]

BlankLine == Line("blank", 0, <<>>, 0, <<>>, <<>>)

HeaderLine(text) == Line("header", 0, text, 0, <<>>, <<>>)

RECURSIVE Split(_, _)
Split(s, sep) ==
    IF Index(s, sep) = 0 THEN <<s>>
    ELSE <<SubSeq(s, 1, Index(s, sep) - 1)>>
             \o Split(SubSeq(s, Index(s, sep) + Len(sep), Len(s)), sep)

RECURSIVE Concat(_)
Concat(parts) == IF Len(parts) = 0 THEN <<>> ELSE Head(parts) \o Concat(Tail(parts))

\* The doc comment printed line by line.
docLines(doc, indent) ==
    IF doc = <<>> THEN <<>>
    ELSE LET ls == Split(doc, <<"\n">>)
         IN  [i \in DOMAIN ls |-> Line("doc", indent, ls[i], 0, <<>>, <<>>)]

\* Pad the name to at least 20 chars for alignment.
padding(name) == IF 20 - Len(name) < 1 THEN 1 ELSE 20 - Len(name)

RECURSIVE FormatSchema(_, _)
FormatSchema(fields, indent) ==
    Concat([i \in DOMAIN fields |->
        LET f == fields[i]
            name == IF f.IsPattern THEN f.Name
                    ELSE IF f.Required THEN f.Name \o <<"!">>
                    ELSE IF f.Optional THEN f.Name \o <<"?">>
                    ELSE f.Name
        IN  docLines(f.Doc, indent)
            \o IF Len(f.Children) > 0
               THEN <<Line("field", indent, name, 0, <<>>, <<>>)>>
                        \o FormatSchema(f.Children, indent + 2)
               ELSE <<Line("field", indent, name, padding(name), f.Type, f.Default)>>])

RECURSIVE FormatSchemaMarkdown(_, _)
FormatSchemaMarkdown(fields, depth) ==
    Concat([i \in DOMAIN fields |->
        LET f == fields[i]
            optMarker == IF f.IsPattern THEN <<>>
                         ELSE IF f.Required THEN <<" ", "(", "r", "e", "q", "u", "i", "r", "e", "d", ")">>
                         ELSE IF f.Optional THEN <<" ", "(", "o", "p", "t", "i", "o", "n", "a", "l", ")">>
                         ELSE <<>>
            docs == IF f.Doc = <<>> THEN <<>>
                    ELSE docLines(f.Doc, 2 * depth) \o <<BlankLine>>
        IN  docs
            \o IF Len(f.Children) > 0
               THEN <<Line("field", 2 * depth, f.Name \o optMarker, 0, <<>>, <<>>)>>
                        \o FormatSchemaMarkdown(f.Children, depth + 1)
               ELSE <<Line("field", 2 * depth, f.Name \o optMarker, 0, f.Type, f.Default)>>])

formatDeclarationGroup(declarations, indent) ==
    Concat([i \in DOMAIN declarations |->
        LET d == declarations[i]
        IN  docLines(d.Doc, indent)
            \o IF Len(d.Children) > 0
               THEN <<Line("decl", indent, d.Name, 0, <<>>, <<>>)>>
                        \o FormatSchema(d.Children, indent + 2)
               ELSE <<Line("decl", indent, d.Name, padding(d.Name), d.Type, <<>>)>>])

formatDeclarationGroupMarkdown(declarations, depth) ==
    Concat([i \in DOMAIN declarations |->
        LET d == declarations[i]
            docs == IF d.Doc = <<>> THEN <<>>
                    ELSE docLines(d.Doc, 0) \o <<BlankLine>>
        IN  docs
            \o IF Len(d.Children) > 0
               THEN <<Line("decl", 0, d.Name, 0, <<>>, <<>>)>>
                        \o FormatSchemaMarkdown(d.Children, depth + 1)
               ELSE <<Line("decl", 0, d.Name, 0, d.Type, <<>>)>>])

ReferencesHeader == <<"R", "e", "f", "e", "r", "e", "n", "c", "e", "s", ":">>

ExtensionsHeader == <<"E", "x", "t", "e", "n", "s", "i", "o", "n", "s", ":">>

DeclarationsHeader == <<"D", "e", "c", "l", "a", "r", "a", "t", "i", "o", "n", "s", ":">>

\* FormatDeclarations printing the header of every category, also of one
\* without members.
FormatDeclarations_HeadersAlways(declarations, indent) ==
    LET refs == SelectSeq(declarations, LAMBDA d : d.Category = DeclarationRef)
        exts == SelectSeq(declarations, LAMBDA d : d.Category = DeclarationExt)
        others == SelectSeq(declarations, LAMBDA d : d.Category = DeclarationOther)
    IN  <<BlankLine, HeaderLine(ReferencesHeader)>> \o formatDeclarationGroup(refs, indent)
        \o <<BlankLine, HeaderLine(ExtensionsHeader)>> \o formatDeclarationGroup(exts, indent)
        \o <<BlankLine, HeaderLine(DeclarationsHeader)>>
        \o formatDeclarationGroup(others, indent)

FormatDeclarations(declarations, indent) ==
    LET refs == SelectSeq(declarations, LAMBDA d : d.Category = DeclarationRef)
        exts == SelectSeq(declarations, LAMBDA d : d.Category = DeclarationExt)
        others == SelectSeq(declarations, LAMBDA d : d.Category = DeclarationOther)
    IN  (IF Len(refs) > 0
         THEN <<BlankLine, HeaderLine(ReferencesHeader)>>
                  \o formatDeclarationGroup(refs, indent)
         ELSE <<>>)
        \o (IF Len(exts) > 0
            THEN <<BlankLine, HeaderLine(ExtensionsHeader)>>
                     \o formatDeclarationGroup(exts, indent)
            ELSE <<>>)
        \o (IF Len(others) > 0
            THEN <<BlankLine, HeaderLine(DeclarationsHeader)>>
                     \o formatDeclarationGroup(others, indent)
            ELSE <<>>)

ReferencesHeaderMarkdown == <<"#", "#", " ", "R", "e", "f", "e", "r", "e", "n", "c", "e", "s">>

ExtensionsHeaderMarkdown == <<"#", "#", " ", "E", "x", "t", "e", "n", "s", "i", "o", "n", "s">>

DeclarationsHeaderMarkdown == <<"#", "#", " ", "D", "e", "c", "l", "a", "r", "a", "t", "i", "o", "n", "s">>

FormatDeclarationsMarkdown(declarations, depth) ==
    LET refs == SelectSeq(declarations, LAMBDA d : d.Category = DeclarationRef)
        exts == SelectSeq(declarations, LAMBDA d : d.Category = DeclarationExt)
        others == SelectSeq(declarations, LAMBDA d : d.Category = DeclarationOther)
    IN  (IF Len(refs) > 0
         THEN <<BlankLine, HeaderLine(ReferencesHeaderMarkdown), BlankLine>>
                  \o formatDeclarationGroupMarkdown(refs, depth)
         ELSE <<>>)
        \o (IF Len(exts) > 0
            THEN <<BlankLine, HeaderLine(ExtensionsHeaderMarkdown), BlankLine>>
                     \o formatDeclarationGroupMarkdown(exts, depth)
            ELSE <<>>)
        \o (IF Len(others) > 0
            THEN <<BlankLine, HeaderLine(DeclarationsHeaderMarkdown), BlankLine>>
                     \o formatDeclarationGroupMarkdown(others, depth)
            ELSE <<>>)

(***************************************************************************)
(* pkg/model/componenttemplate.go                                          *)
(***************************************************************************)
\* v.Err(): the value is an evaluation error.
Err(v) == v.iterErr

\* v.LookupPath(cue.ParsePath(name)): the regular field of that name, or an
\* error value when there is none.
LookupPath(v, name) ==
    LET hits == IF v.kind = "struct" /\ ~v.iterErr
                THEN SelectSeq(v.fields, LAMBDA e : e.name = name /\ e.ct = "regular")
                ELSE <<>>
    IN  IF Len(hits) > 0 THEN hits[1].value
        ELSE [TypeValue("_|_", <<>>, <<>>, NoExpr, <<>>, <<>>) EXCEPT !.iterErr = TRUE]

ConfigSchema(tmplValue, expand) ==
    LET configValue == LookupPath(tmplValue, <<"c", "o", "n", "f", "i", "g">>)
    IN  IF Err(configValue) THEN <<>>
        ELSE WalkSchema(configValue, expand)

(***************************************************************************)
(* pkg/model/bundle.go                                                     *)
(***************************************************************************)
ComponentsName == <<"c", "o", "m", "p", "o", "n", "e", "n", "t", "s">>

filterValuesSchemaPatterns(fields) ==
    [i \in DOMAIN fields |->
        LET field == fields[i]
        IN  IF field.Name = ComponentsName /\ Len(field.Children) > 0
            THEN [field EXCEPT !.Children =
                     SelectSeq(@, LAMBDA child : ~(/\ child.IsPattern
                                                   /\ Len(child.Children) = 0
                                                   /\ child.Type = OpenStruct))]
            ELSE field]

\* Bundle.ValuesSchema on the bundle value b.value
ValuesSchema(bundleValue) ==
    LET valuesValue == LookupPath(bundleValue, <<"v", "a", "l", "u", "e", "s">>)
    IN  IF Err(valuesValue) THEN <<>>
        ELSE filterValuesSchemaPatterns(WalkSchema(valuesValue, FALSE))

(***************************************************************************)
(* pkg/docs/resolve.go                                                     *)
(***************************************************************************)
ComponentTemplate(package, name, module, version) ==
    [Package |-> package, Name |-> name, Module |-> module, Version |-> version]

Found(tmpl) == [tmpl |-> <<tmpl>>, err |-> [kind |-> "none", listed |-> <<>>]]

\* fmt.Errorf: the kind of message and the names it lists, in order.
Failed(kind, listed) == [tmpl |-> <<>>, err |-> [kind |-> kind, listed |-> listed]]

\* shorthandName keeping the @version suffix.
shorthandName_KeepVersion(pkg) ==
    LET slash == LastIndex(pkg, <<"/">>)
    IN  IF slash # 0 THEN SubSeq(pkg, slash + 1, Len(pkg)) ELSE pkg

shorthandName(pkg) ==
    LET at == LastIndex(pkg, <<"@">>)
        p == IF at # 0 THEN SubSeq(pkg, 1, at - 1) ELSE pkg
        slash == LastIndex(p, <<"/">>)
    IN  IF slash # 0 THEN SubSeq(p, slash + 1, Len(p)) ELSE p

displayName(tmpl) ==
    shorthandName(tmpl.Package) \o <<".">> \o TrimPrefix(tmpl.Name, <<"#">>)

\* ambiguousError listing the display names without the owning packages.
ambiguousError_NoPackage(ref, matches) ==
    Failed("ambiguous", [i \in DOMAIN matches |-> displayName(matches[i])])

ambiguousError(ref, matches) ==
    Failed("ambiguous",
           [i \in DOMAIN matches |->
               displayName(matches[i]) \o <<" ", "(">> \o matches[i].Package \o <<")">>])

\* resolveFullyQualified comparing case-insensitively.
resolveFullyQualified_Fold(ref, tmpls) ==
    LET idx == Index(ref, <<":", "#">>)
        pkg == SubSeq(ref, 1, idx - 1)
        defName == <<"#">> \o SubSeq(ref, idx + 2, Len(ref))
        exact == SelectSeq(tmpls, LAMBDA t :
                     EqualFold(t.Package, pkg) /\ EqualFold(t.Name, defName))
    IN  IF Len(exact) > 0 THEN Found(exact[1])
        ELSE Failed("not found", <<>>)

\* Step 1: package:#Definition, exact, then with package@version.
resolveFullyQualified(ref, tmpls) ==
    LET idx == Index(ref, <<":", "#">>)
        pkg == SubSeq(ref, 1, idx - 1)
        defName == <<"#">> \o SubSeq(ref, idx + 2, Len(ref))
        exact == SelectSeq(tmpls, LAMBDA t : t.Package = pkg /\ t.Name = defName)
        versioned == SelectSeq(tmpls, LAMBDA t :
                         t.Package \o <<"@">> \o t.Version = pkg /\ t.Name = defName)
    IN  IF Len(exact) > 0 THEN Found(exact[1])
        ELSE IF Len(versioned) > 0 THEN Found(versioned[1])
        ELSE Failed("not found", <<>>)

\* Step 2: the candidates whose definition name matches.
defMatchesOf(refLower, tmpls) ==
    SelectSeq(tmpls, LAMBDA t : EqualFold(TrimPrefix(t.Name, <<"#">>), refLower))

\* pkgMatchesOf comparing the whole package path.
pkgMatchesOf_WholePath(refLower, tmpls) ==
    SelectSeq(tmpls, LAMBDA t : EqualFold(t.Package, refLower))

\* Step 3: the candidates whose package shorthand matches.
pkgMatchesOf(refLower, tmpls) ==
    SelectSeq(tmpls, LAMBDA t : EqualFold(shorthandName(t.Package), refLower))

\* dotMatchesOf splitting on the first dot.
dotMatchesOf_FirstDot(ref, tmpls) ==
    LET dotIdx == Index(ref, <<".">>)
        pkgPart == ToLower(SubSeq(ref, 1, dotIdx - 1))
        defPart == ToLower(SubSeq(ref, dotIdx + 1, Len(ref)))
    IN  IF dotIdx = 0 THEN <<>>
        ELSE SelectSeq(tmpls, LAMBDA t :
                 /\ ToLower(shorthandName(t.Package)) = pkgPart
                 /\ ToLower(TrimPrefix(t.Name, <<"#">>)) = defPart)

\* Step 4: the candidates matching package.Definition, split on the last dot.
dotMatchesOf(ref, tmpls) ==
    LET dotIdx == LastIndex(ref, <<".">>)
        pkgPart == ToLower(SubSeq(ref, 1, dotIdx - 1))
        defPart == ToLower(SubSeq(ref, dotIdx + 1, Len(ref)))
    IN  IF dotIdx = 0 THEN <<>>
        ELSE SelectSeq(tmpls, LAMBDA t :
                 /\ ToLower(shorthandName(t.Package)) = pkgPart
                 /\ ToLower(TrimPrefix(t.Name, <<"#">>)) = defPart)

\* ResolveReference trying the package shorthand before the definition name.
ResolveReference_PackageFirst(ref, tmpls) ==
    IF Len(tmpls) = 0 THEN Failed("no templates", <<>>)
    ELSE IF Contains(ref, <<":", "#">>) THEN resolveFullyQualified(ref, tmpls)
    ELSE LET refLower == ToLower(ref)
             defMatches == defMatchesOf(refLower, tmpls)
             pkgMatches == pkgMatchesOf(refLower, tmpls)
             dotMatches == dotMatchesOf(ref, tmpls)
         IN  IF Len(pkgMatches) = 1 THEN Found(pkgMatches[1])
             ELSE IF Len(defMatches) = 1 THEN Found(defMatches[1])
             ELSE IF Len(dotMatches) > 0 THEN Found(dotMatches[1])
             ELSE IF Len(defMatches) > 1 THEN ambiguousError(ref, defMatches)
             ELSE IF Len(pkgMatches) > 1 THEN ambiguousError(ref, pkgMatches)
             ELSE Failed("no match",
                         [i \in DOMAIN tmpls |-> displayName(tmpls[i])])

\* ResolveReference returning neither a template nor an error when nothing
\* matches.
ResolveReference_NoMatchNil(ref, tmpls) ==
    IF Len(tmpls) = 0 THEN Failed("no templates", <<>>)
    ELSE IF Contains(ref, <<":", "#">>) THEN resolveFullyQualified(ref, tmpls)
    ELSE LET refLower == ToLower(ref)
             defMatches == defMatchesOf(refLower, tmpls)
             pkgMatches == pkgMatchesOf(refLower, tmpls)
             dotMatches == dotMatchesOf(ref, tmpls)
         IN  IF Len(defMatches) = 1 THEN Found(defMatches[1])
             ELSE IF Len(pkgMatches) = 1 THEN Found(pkgMatches[1])
             ELSE IF Len(dotMatches) > 0 THEN Found(dotMatches[1])
             ELSE IF Len(defMatches) > 1 THEN ambiguousError(ref, defMatches)
             ELSE IF Len(pkgMatches) > 1 THEN ambiguousError(ref, pkgMatches)
             ELSE [tmpl |-> <<>>, err |-> [kind |-> "none", listed |-> <<>>]]

ResolveReference(ref, tmpls) ==
    IF Len(tmpls) = 0 THEN Failed("no templates", <<>>)
    ELSE IF Contains(ref, <<":", "#">>) THEN resolveFullyQualified(ref, tmpls)
    ELSE LET refLower == ToLower(ref)
             defMatches == defMatchesOf(refLower, tmpls)
             pkgMatches == pkgMatchesOf(refLower, tmpls)
             dotMatches == dotMatchesOf(ref, tmpls)
         IN  IF Len(defMatches) = 1 THEN Found(defMatches[1])
             ELSE IF Len(pkgMatches) = 1 THEN Found(pkgMatches[1])
             ELSE IF Len(dotMatches) > 0 THEN Found(dotMatches[1])
             ELSE IF Len(defMatches) > 1 THEN ambiguousError(ref, defMatches)
             ELSE IF Len(pkgMatches) > 1 THEN ambiguousError(ref, pkgMatches)
             ELSE Failed("no match",
                         [i \in DOMAIN tmpls |-> displayName(tmpls[i])])

(***************************************************************************)
(* The schemas the model walks.  They are the shapes of the package's own  *)
(* tests (schema_test.go and the tests that follow WalkDeclarations in     *)
(* schema.go): primitive fields, disjunctions, defaults, inline structs,   *)
(* pure and unified definition references, hidden and expand attributes.   *)
(***************************************************************************)
Digits == <<"1", "2", "3", "4", "5", "6", "7", "8", "9">>

Odin(args) == [name |-> "odin", args |-> args]

OdinHidden == Odin(<<"hidden">>)

OdinExpand == Odin(<<"expand">>)

\* An attribute of another tool that happens to say hidden: @json(hidden).
JsonHidden == [name |-> "json", args |-> <<"hidden">>]

Prim(kind, attrs) == TypeValue(kind, attrs, <<>>, NoExpr, <<>>, <<>>)

Literal(kind, text) == [Prim(kind, <<>>) EXCEPT !.lit = <<text>>]

Struct(attrs, fields, pats) == TypeValue("struct", attrs, <<>>, NoExpr, fields, pats)

Field(name, ct, v) == [name |-> name, ct |-> ct, value |-> v]

Pattern(name, v) == [name |-> name, ct |-> "pattern", value |-> v]

Definition(name, v) == [name |-> name, ct |-> "definition", value |-> v]

DefSelector(name) == <<[name |-> name, isDef |-> TRUE]>>

FieldSelector(name) == <<[name |-> name, isDef |-> FALSE]>>

\* x: #Def            the evaluated struct, reached through a reference
RefTo(name, body, attrs) == [body EXCEPT !.refPath = DefSelector(name), !.attrs = attrs]

\* x: #Def & {...}    a unification: no reference path of its own, the
\*                    reference is the first operand of the & expression
UnifyWith(name, body, attrs) ==
    [body EXCEPT !.attrs = attrs,
                 !.expr = [op |-> "and",
                           args |-> <<RefTo(name, body, <<>>), Struct(<<>>, <<>>, <<>>)>>]]

AnyString == <<"[", "s", "t", "r", "i", "n", "g", "]">>

\* string | *"SecretStore"   Expr() leaves out a default that another branch
\*                           subsumes: what is left is the one branch string
KindWithDefault ==
    [Prim("string", <<>>) EXCEPT
        !.expr = [op |-> "or", args |-> <<Prim("string", <<>>)>>],
        !.dflt = <<Literal("string", <<"S">>)>>]

\* bool | *true             the same, when Expr() of the one branch left is
\*                           returned in place of a disjunction
BoolWithDefault ==
    [Prim("bool", <<>>) EXCEPT !.dflt = <<Literal("bool", <<"t", "r", "u", "e">>)>>]

\* *"dev" | "prod"          no branch subsumes the default: both are left
EnvWithDefault ==
    [Prim("string", <<>>) EXCEPT
        !.expr = [op |-> "or",
                  args |-> <<Literal("string", <<"d", "e", "v">>),
                             Literal("string", <<"p", "r", "o", "d">>)>>],
        !.dflt = <<Literal("string", <<"d", "e", "v">>)>>]

\* "dev" | "prod"
EnvDisjunction ==
    [Prim("string", <<>>) EXCEPT
        !.expr = [op |-> "or",
                  args |-> <<Literal("string", <<"d", "e", "v">>),
                             Literal("string", <<"p", "r", "o", "d">>)>>]]

\* database: { host: string, password: string @odin(hidden) }
DatabaseBody ==
    Struct(<<>>,
           <<Field(<<"h", "o", "s", "t">>, "regular", Prim("string", <<>>)),
             Field(<<"p", "w">>, "regular", Prim("string", <<OdinHidden>>))>>,
           <<>>)

\* #Inner: { value: string, secret?: string @odin(hidden) }
InnerName == <<"#", "I", "n", "n", "e", "r">>

InnerBody ==
    Struct(<<>>,
           <<Field(<<"v", "a", "l", "u", "e">>, "regular",
                   [Prim("string", <<>>) EXCEPT !.docs = <<<<" ", "d", "o", "c", "\n">>>>]),
             Field(<<"s", "e", "c", "r", "e", "t">>, "optional",
                   Prim("string", <<OdinHidden>>))>>,
           <<>>)

\* #Sealed: { password: string @odin(hidden) }   no visible field
SealedName == <<"#", "S", "e", "a", "l", "e", "d">>

SealedBody ==
    Struct(<<>>,
           <<Field(<<"p", "w">>, "regular", Prim("string", <<OdinHidden>>))>>,
           <<>>)

\* _#Store: { name!: string, kind: string | *"S", db: {...}, inner: #Inner,
\*            [string]: {host, pw @odin(hidden)}, [string]: int @odin(hidden) }
StoreName == <<"_", "#", "S", "t", "o", "r", "e">>

StoreBody ==
    Struct(<<>>,
           <<Field(<<"n", "a", "m", "e">>, "required", Prim("string", <<>>)),
             Field(<<"k", "i", "n", "d">>, "regular", KindWithDefault),
             Field(<<"d", "b">>, "regular", DatabaseBody),
             Field(<<"i", "n", "n", "e", "r">>, "regular",
                   RefTo(InnerName, InnerBody, <<>>))>>,
           <<Pattern(AnyString, DatabaseBody),
             Pattern(<<"[", "i", "n", "t", "]">>, Prim("int", <<OdinHidden>>))>>)

\* #Inner | { host: string, pw: string @odin(hidden) } | 8
\* a disjunction of struct kind whose branches are a reference, a struct and,
\* at the end, a literal
StructOrRef ==
    [Struct(<<>>, <<>>, <<>>) EXCEPT
        !.kind = "_",
        !.expr = [op |-> "or",
                  args |-> <<RefTo(InnerName, InnerBody, <<>>),
                             DatabaseBody,
                             Literal("int", <<"8">>)>>]]

\* #Inner | #Sealed         a disjunction of references, of struct kind
RefOrRef ==
    [Struct(<<>>, <<>>, <<>>) EXCEPT
        !.expr = [op |-> "or",
                  args |-> <<RefTo(InnerName, InnerBody, <<>>),
                             RefTo(SealedName, SealedBody, <<>>)>>]]

\* An inline struct that uses references itself:
\*   { plain: #Inner, forced: _#Store @odin(expand), gone: #Inner @odin(hidden),
\*     none: { pw: string @odin(hidden) }, open: {}, on: bool | *true,
\*     env: *"dev" | "prod", alt: #Inner | {...} | 8, either?: #Inner | #Sealed }
NestedBody ==
    Struct(<<>>,
           <<Field(<<"p", "l", "a", "i", "n">>, "regular",
                   RefTo(InnerName, InnerBody, <<>>)),
             Field(<<"f", "o", "r", "c", "e", "d">>, "regular",
                   RefTo(StoreName, StoreBody, <<OdinExpand>>)),
             Field(<<"g", "o", "n", "e">>, "regular",
                   RefTo(InnerName, InnerBody, <<OdinHidden>>)),
             Field(<<"n", "o", "n", "e">>, "regular", SealedBody),
             Field(<<"o", "p", "e", "n">>, "regular", Struct(<<>>, <<>>, <<>>)),
             Field(<<"o", "n">>, "regular", BoolWithDefault),
             Field(<<"e", "n", "v">>, "regular", EnvWithDefault),
             Field(<<"a", "l", "t">>, "regular", StructOrRef),
             Field(<<"e", "i", "t", "h", "e", "r">>, "optional", RefOrRef)>>,
           <<>>)

\* The values a field of the walked struct may have, with its constraint.
FieldChoices ==
    { [ct |-> "regular", value |-> Prim("string", <<>>)],
      [ct |-> "optional", value |-> Prim("int", <<JsonHidden>>)],
      [ct |-> "regular", value |-> Prim("string", <<OdinHidden>>)],
      [ct |-> "required", value |-> EnvDisjunction],
      [ct |-> "regular", value |-> TypeValue("list", <<>>, <<>>, NoExpr, <<>>, <<>>)],
      [ct |-> "regular", value |-> DatabaseBody],
      [ct |-> "regular", value |-> NestedBody],
      [ct |-> "regular", value |-> RefTo(InnerName, InnerBody, <<>>)],
      [ct |-> "regular", value |-> RefTo(InnerName, InnerBody, <<OdinExpand>>)],
      [ct |-> "optional", value |-> RefTo(SealedName, SealedBody, <<>>)],
      [ct |-> "regular", value |-> UnifyWith(StoreName, StoreBody, <<>>)],
      [ct |-> "regular", value |-> RefTo(StoreName, StoreBody, <<OdinExpand, OdinHidden>>)],
      \* base: {...}; x: base   a reference to a regular field, not to a definition
      [ct |-> "regular",
       value |-> [DatabaseBody EXCEPT !.refPath = FieldSelector(<<"b", "a", "s", "e">>)]] }

\* The values a pattern constraint of the walked struct may have.
PatternChoices ==
    { Prim("string", <<>>),
      Prim("string", <<OdinHidden>>),
      DatabaseBody,
      RefTo(StoreName, StoreBody, <<>>) }

\* What a template may declare as config, or what a caller may hand to
\* WalkSchema: structs with and without visible fields and patterns, and
\* values that are no struct.
ConfigChoices ==
    { StoreBody, DatabaseBody, SealedBody, NestedBody,
      Struct(<<>>, <<>>, <<Pattern(AnyString, Prim("int", <<>>))>>),
      RefTo(InnerName, InnerBody, <<>>),
      Prim("string", <<>>),
      Literal("int", <<"8">>),
      EnvDisjunction,
      TypeValue("list", <<>>, <<>>, NoExpr, <<>>, <<>>) }

\* #Component: { apiVersion: "v1", config: <config> }
TemplateValue(config) ==
    Struct(<<>>,
           <<Field(<<"a", "p", "i", "V", "e", "r", "s", "i", "o", "n">>, "regular",
                   Literal("string", <<"v", "1">>)),
             Field(<<"c", "o", "n", "f", "i", "g">>, "regular", config)>>,
           <<>>)

\* #Component: { apiVersion: "v1" }    a template without config
BareTemplateValue ==
    Struct(<<>>,
           <<Field(<<"a", "p", "i", "V", "e", "r", "s", "i", "o", "n">>, "regular",
                   Literal("string", <<"v", "1">>))>>,
           <<>>)

OdinRef == Odin(<<"ref">>)

OdinExt == Odin(<<"ext">>)

\* #refs: { @odin(...)  foo: string, secret: string @odin(hidden) }
DeclBody(attrs) ==
    Struct(attrs,
           <<Field(<<"f", "o", "o">>, "regular", Prim("string", <<>>)),
             Field(<<"s", "e", "c", "r", "e", "t">>, "regular",
                   Prim("string", <<OdinHidden>>))>>,
           <<>>)

\* The definitions a package may declare: whether the name is private (_#)
\* and the value, with its attributes in source order.
DeclChoices ==
    { [private |-> FALSE, value |-> DeclBody(<<OdinRef>>)],
      [private |-> FALSE, value |-> DeclBody(<<OdinExt>>)],
      [private |-> FALSE, value |-> DeclBody(<<Odin(<<"other">>)>>)],
      [private |-> FALSE, value |-> DeclBody(<<Odin(<<"misc">>)>>)],
      [private |-> FALSE, value |-> DeclBody(<<Odin(<<>>)>>)],
      [private |-> FALSE, value |-> DeclBody(<<>>)],
      [private |-> FALSE, value |-> DeclBody(<<JsonHidden, OdinExt>>)],
      [private |-> FALSE, value |-> DeclBody(<<OdinHidden>>)],
      [private |-> FALSE, value |-> DeclBody(<<OdinRef, OdinHidden>>)],
      [private |-> FALSE, value |-> DeclBody(<<OdinHidden, OdinRef>>)],
      [private |-> FALSE, value |-> UnifyWith(StoreName, StoreBody, <<OdinRef>>)],
      [private |-> FALSE, value |-> UnifyWith(StoreName, StoreBody, <<OdinRef, OdinExpand>>)],
      [private |-> FALSE, value |-> RefTo(InnerName, InnerBody, <<OdinExt>>)],
      [private |-> FALSE, value |-> RefTo(InnerName, InnerBody, <<OdinExpand>>)],
      [private |-> FALSE, value |-> Prim("string", <<OdinRef>>)],
      [private |-> TRUE, value |-> DeclBody(<<OdinRef>>)],
      [private |-> TRUE, value |-> DeclBody(<<>>)] }

DeclName(private, i) ==
    IF private THEN <<"_", "#", "d", Digits[i]>> ELSE <<"#", "d", Digits[i]>>

\* #Component: { config: { name: string }, ... }  before its definitions are declared
ComponentValue ==
    Struct(<<>>,
           <<Field(<<"c", "o", "n", "f", "i", "g">>, "regular",
                   Struct(<<>>,
                          <<Field(<<"n", "a", "m", "e">>, "regular", Prim("string", <<>>))>>,
                          <<>>))>>,
           <<>>)

(***************************************************************************)
(* pkg/oci/oci.go                                                          *)
(***************************************************************************)
Reference(registry, repository, tagOrDigest) ==
    [err |-> FALSE, Registry |-> registry, Repository |-> repository,
     Reference |-> tagOrDigest]

\* The nil reference returned with an error.
Invalid == [err |-> TRUE, Registry |-> <<>>, Repository |-> <<>>, Reference |-> <<>>]

OciScheme == <<"o", "c", "i", ":", "/", "/">>

Latest == <<"l", "a", "t", "e", "s", "t">>

ParseReference(rawRef) ==
    LET stripped == TrimPrefix(rawRef, OciScheme)
        slash == Index(stripped, <<"/">>)
    IN  IF slash = 0 THEN Invalid
        ELSE LET registry == SubSeq(stripped, 1, slash - 1)
                 repoAndRef == SubSeq(stripped, slash + 1, Len(stripped))
                 at == LastIndex(repoAndRef, <<"@">>)
                 colon == LastIndex(repoAndRef, <<":">>)
             IN  IF at # 0
                 THEN Reference(registry, SubSeq(repoAndRef, 1, at - 1),
                                SubSeq(repoAndRef, at + 1, Len(repoAndRef)))
                 ELSE IF colon # 0
                 THEN Reference(registry, SubSeq(repoAndRef, 1, colon - 1),
                                SubSeq(repoAndRef, colon + 1, Len(repoAndRef)))
                 ELSE Reference(registry, repoAndRef, Latest)

Sha256Prefix == <<"s", "h", "a", "2", "5", "6", ":">>

\* Reference.String
ReferenceString(r) ==
    LET sep == IF HasPrefix(r.Reference, Sha256Prefix) THEN <<"@">> ELSE <<":">>
    IN  r.Registry \o <<"/">> \o r.Repository \o sep \o r.Reference

(***************************************************************************)
(* pkg/cmd/docs/run.go                                                     *)
(***************************************************************************)
\* All templates under a package path: those of the package itself and of
\* the packages below it.
ResolvePackagePath(ref, tmpls) ==
    SelectSeq(tmpls, LAMBDA t : t.Package = ref \/ HasPrefix(t.Package, ref \o <<"/">>))

\* The value discovery attaches to a template.
TemplateValueOf(tmpl) == TemplateValue(InnerBody)

\* cue.Value.String: the text of a string, an error for any other value.
String(v) ==
    IF ~Err(v) /\ v.kind = "string" /\ v.lit # <<>>
    THEN [s |-> v.lit[1], err |-> FALSE]
    ELSE [s |-> <<>>, err |-> TRUE]

TextLine(kind, text) == Line(kind, 0, text, 0, <<>>, <<>>)

runMarkdown(tmpl, expand) ==
    LET v == TemplateValueOf(tmpl)
        docComments == Concat([i \in DOMAIN v.docs |->
                           IF TrimSpace(v.docs[i]) = <<>> THEN <<>>
                           ELSE LET ls == Split(TrimSpace(v.docs[i]), <<"\n">>)
                                IN  [j \in DOMAIN ls |-> TextLine("quote", ls[j])]
                                        \o <<BlankLine>>])
        apiVersion == LookupPath(v, <<"a", "p", "i", "V", "e", "r", "s", "i", "o", "n">>)
        kind == LookupPath(v, <<"k", "i", "n", "d">>)
        row(name, field) ==
            IF ~Err(field) /\ ~String(field).err
            THEN <<Line("row", 0, name, 0, String(field).s, <<>>)>>
            ELSE <<>>
        table == IF ~Err(apiVersion) \/ ~Err(kind)
                 THEN <<TextLine("table", <<"|", " ", "F", "i", "e", "l", "d", " ", "|", " ", "V", "a", "l", "u", "e", " ", "|">>),
                        TextLine("table", <<"|", "-", "-", "-", "-", "-", "-", "-", "|", "-", "-", "-", "-", "-", "-", "-", "|">>)>>
                          \o row(<<"a", "p", "i", "V", "e", "r", "s", "i", "o", "n">>, apiVersion)
                          \o row(<<"k", "i", "n", "d">>, kind)
                          \o <<BlankLine>>
                 ELSE <<>>
        fields == ConfigSchema(v, expand)
        config == IF Len(fields) > 0
                  THEN <<HeaderLine(<<"#", "#", " ", "C", "o", "n", "f", "i", "g">>), BlankLine>>
                           \o FormatSchemaMarkdown(fields, 0)
                  ELSE <<>>
    IN  <<Line("title", 0, tmpl.Package, 0, tmpl.Name, <<>>), BlankLine>>
            \o docComments \o table \o config

\* filepath.Join of non-empty elements without "." or "..".
JoinPath(elems) == Join(elems, <<"/">>)

\* os.Create, the writes and Close: the file at path holds exactly the
\* content, whether or not it existed.
Create(fs, path, content) ==
    IF \E i \in DOMAIN fs : fs[i].path = path
    THEN [i \in DOMAIN fs |->
            IF fs[i].path = path THEN [path |-> path, content |-> content] ELSE fs[i]]
    ELSE Append(fs, [path |-> path, content |-> content])

\* groupOrder: the shorthands in order of first appearance.
groupOrder(tmpls) ==
    LET first == SelectSeq([i \in DOMAIN tmpls |-> i],
                     LAMBDA i : \A j \in 1..(i - 1) :
                         shorthandName(tmpls[j].Package) # shorthandName(tmpls[i].Package))
    IN  [k \in DOMAIN first |-> shorthandName(tmpls[first[k]].Package)]

\* groups[shorthand].templates
groupTemplates(tmpls, shorthand) ==
    SelectSeq(tmpls, LAMBDA t : shorthandName(t.Package) = shorthand)

MdExt == <<".", "m", "d">>

\* The templates in the order their files are written: group by group.
writeOrder(tmpls) ==
    Concat([g \in DOMAIN groupOrder(tmpls) |-> groupTemplates(tmpls, groupOrder(tmpls)[g])])

RECURSIVE writeTemplates(_, _, _, _)
writeTemplates(fs, tmpls, outputPath, expand) ==
    IF Len(tmpls) = 0 THEN fs
    ELSE LET tmpl == Head(tmpls)
             pkgDir == JoinPath(<<outputPath, shorthandName(tmpl.Package)>>)
             defName == TrimPrefix(tmpl.Name, <<"#">>)
             filename == JoinPath(<<pkgDir, defName \o MdExt>>)
         IN  writeTemplates(Create(fs, filename, runMarkdown(tmpl, expand)),
                            Tail(tmpls), outputPath, expand)

summary(tmpls) ==
    <<TextLine("title", <<"#", " ", "S", "u", "m", "m", "a", "r", "y">>), BlankLine>>
        \o Concat([g \in DOMAIN groupOrder(tmpls) |->
               LET shorthand == groupOrder(tmpls)[g]
                   group == groupTemplates(tmpls, shorthand)
                   firstDefName == TrimPrefix(group[1].Name, <<"#">>)
               IN  <<Line("link", 0, shorthand, 0,
                          JoinPath(<<shorthand, firstDefName \o MdExt>>), <<>>)>>
                       \o [i \in DOMAIN group |->
                              LET defName == TrimPrefix(group[i].Name, <<"#">>)
                              IN  Line("link", 2, defName, 0,
                                       JoinPath(<<shorthand, defName \o MdExt>>), <<>>)]])

SummaryName == <<"S", "U", "M", "M", "A", "R", "Y", ".", "m", "d">>

Options(format, outputPath, noSummary) ==
    [Format |-> format, OutputPath |-> outputPath, NoSummary |-> noSummary]

\* What a handler of run leaves behind: the error it returns, the files, the
\* lines on standard output, and the templates whose ConfigSchema it called.
RunResult(err, fs, out, seen) == [err |-> err, files |-> fs, stdout |-> out, walked |-> seen]

\* os.MkdirAll fails on the empty path.
MkdirAllFails(path) == path = <<>>

\* runMarkdownDirectory writing the index whatever NoSummary says.
runMarkdownDirectory_IgnoresNoSummary(fs, out, tmpls, outputPath, expand, generateSummary, noSummary) ==
    IF MkdirAllFails(outputPath)
    THEN RunResult("creating output directory", fs, out, <<>>)
    ELSE LET written == writeTemplates(fs, writeOrder(tmpls), outputPath, expand)
         IN  RunResult("none",
                       IF generateSummary
                       THEN Create(written, JoinPath(<<outputPath, SummaryName>>),
                                   summary(tmpls))
                       ELSE written,
                       out, writeOrder(tmpls))

runMarkdownDirectory(fs, out, tmpls, outputPath, expand, generateSummary, noSummary) ==
    IF MkdirAllFails(outputPath)
    THEN RunResult("creating output directory", fs, out, <<>>)
    ELSE LET written == writeTemplates(fs, writeOrder(tmpls), outputPath, expand)
         IN  RunResult("none",
                       IF generateSummary /\ ~noSummary
                       THEN Create(written, JoinPath(<<outputPath, SummaryName>>),
                                   summary(tmpls))
                       ELSE written,
                       out, writeOrder(tmpls))

printConcreteField(v, path) ==
    LET field == LookupPath(v, path)
        gap == IF 14 - Len(path) - 1 < 1 THEN 1 ELSE 14 - Len(path) - 1
    IN  IF ~Err(field) /\ ~String(field).err
        THEN <<Line("row", 0, path \o <<":">>, gap,
                    <<"\"">> \o String(field).s \o <<"\"">>, <<>>)>>
        ELSE <<>>

runText(tmpl, expand) ==
    LET v == TemplateValueOf(tmpl)
        docComments == Concat([i \in DOMAIN v.docs |->
                           IF TrimSpace(v.docs[i]) = <<>> THEN <<>>
                           ELSE <<TextLine("doc", TrimSpace(v.docs[i])), BlankLine>>])
        fields == ConfigSchema(v, expand)
        config == IF Len(fields) > 0
                  THEN <<BlankLine, HeaderLine(<<"C", "o", "n", "f", "i", "g", ":">>)>> \o FormatSchema(fields, 2)
                  ELSE <<>>
    IN  <<Line("title", 0, tmpl.Package, 0, tmpl.Name, <<>>), BlankLine>>
            \o docComments
            \o printConcreteField(v, <<"a", "p", "i", "V", "e", "r", "s", "i", "o", "n">>)
            \o printConcreteField(v, <<"k", "i", "n", "d">>)
            \o config

\* The pages of the templates, one after the other, a separator before each
\* page but the first.
pages(docs, separator) ==
    Concat([i \in DOMAIN docs |->
               (IF i > 1 THEN <<BlankLine, TextLine("rule", separator), BlankLine>> ELSE <<>>)
                   \o docs[i]])

\* The writer of the single-stream handlers: the file at the output path if
\* one is given, standard output otherwise.
writeStream(fs, out, outputPath, lines, seen) ==
    IF outputPath # <<>>
    THEN RunResult("none", Create(fs, outputPath, lines), out, seen)
    ELSE RunResult("none", fs, lines, seen)

TextRule == <<"=", "=", "=", "=", "=", "=", "=", "=", "=", "=", "=", "=", "=", "=", "=", "=", "=", "=", "=", "=", "=", "=", "=", "=", "=", "=", "=", "=", "=", "=", "=", "=", "=", "=", "=">>

runTextMulti(fs, out, tmpls, outputPath, expand) ==
    writeStream(fs, out, outputPath,
                pages([i \in DOMAIN tmpls |-> runText(tmpls[i], expand)], TextRule), tmpls)

MarkdownRule == <<"-", "-", "-">>

runMarkdownMulti(fs, out, tmpls, outputPath, expand) ==
    writeStream(fs, out, outputPath,
                pages([i \in DOMAIN tmpls |-> runMarkdown(tmpls[i], expand)], MarkdownRule), tmpls)

\* The templates the reference resolves to.
resolvedTemplates(ref, tmpls) ==
    IF Contains(ref, <<"/">>) /\ ~Contains(ref, <<":", "#">>)
    THEN IF Len(ResolvePackagePath(ref, tmpls)) = 0
         THEN ResolveReference(ref, tmpls)
         ELSE [tmpl |-> ResolvePackagePath(ref, tmpls),
               err |-> [kind |-> "none", listed |-> <<>>]]
    ELSE ResolveReference(ref, tmpls)

TextFormat == <<"t", "e", "x", "t">>

Markdown == <<"m", "a", "r", "k", "d", "o", "w", "n">>

MarkdownMulti == <<"m", "a", "r", "k", "d", "o", "w", "n", "-", "m", "u", "l", "t", "i">>

Mdbook == <<"m", "d", "b", "o", "o", "k">>

\* Normalize format aliases.
normalizeFormat(format) ==
    CASE format = <<"m", "d">> -> Markdown
      [] format = <<"m", "d", "m">> -> MarkdownMulti
      [] format = <<"m", "d", "b">> -> Mdbook
      [] OTHER -> format

\* run dispatching a format it does not know to the text handler.
run_UnknownFormatAsText(fs, out, ref, tmpls, format, outputPath, expand, noSummary) ==
    LET res == resolvedTemplates(ref, tmpls)
        fmt == normalizeFormat(format)
    IN  IF res.err.kind # "none" THEN RunResult(res.err.kind, fs, out, <<>>)
        ELSE IF fmt = Markdown
             THEN runMarkdownMulti(fs, out, res.tmpl, outputPath, expand)
        ELSE IF fmt = MarkdownMulti
             THEN runMarkdownDirectory(fs, out, res.tmpl, outputPath, expand, FALSE, noSummary)
        ELSE IF fmt = Mdbook
             THEN runMarkdownDirectory(fs, out, res.tmpl, outputPath, expand, TRUE, noSummary)
        ELSE runTextMulti(fs, out, res.tmpl, outputPath, expand)

run(fs, out, ref, tmpls, format, outputPath, expand, noSummary) ==
    LET res == resolvedTemplates(ref, tmpls)
        fmt == normalizeFormat(format)
    IN  IF res.err.kind # "none" THEN RunResult(res.err.kind, fs, out, <<>>)
        ELSE IF fmt = TextFormat
             THEN runTextMulti(fs, out, res.tmpl, outputPath, expand)
        ELSE IF fmt = Markdown
             THEN runMarkdownMulti(fs, out, res.tmpl, outputPath, expand)
        ELSE IF fmt = MarkdownMulti
             THEN runMarkdownDirectory(fs, out, res.tmpl, outputPath, expand, FALSE, noSummary)
        ELSE IF fmt = Mdbook
             THEN runMarkdownDirectory(fs, out, res.tmpl, outputPath, expand, TRUE, noSummary)
        ELSE RunResult("unsupported output format", fs, out, <<>>)

(***************************************************************************)
(* cmd/odin/cmd/docs.go                                                    *)
(***************************************************************************)
DirectoryFormats == {MarkdownMulti, <<"m", "d", "m">>, Mdbook, <<"m", "d", "b">>}

RunE(fs, out, ref, tmpls, format, outputPath, expand, noSummary) ==
    IF format \in DirectoryFormats /\ outputPath = <<>>
    THEN RunResult("requires output", fs, out, <<>>)
    ELSE IF noSummary /\ format # Mdbook /\ format # <<"m", "d", "b">>
    THEN RunResult("no-summary is only valid with mdbook", fs, out, <<>>)
    ELSE run(fs, out, ref, tmpls, format, outputPath, expand, noSummary)

(***************************************************************************)
(* Bundles (internal/schema/bundle.cue).                                   *)
(***************************************************************************)
\* {...}
OpenEmptyStruct == Struct(<<>>, <<>>, <<>>)

\* What a bundle may say about the values of one component.
ComponentValuesChoices == {OpenEmptyStruct, DatabaseBody, SealedBody}

\* What the values of a bundle may require of every component.
ComponentPatternChoices == {OpenEmptyStruct, InnerBody}

\* Further fields of the values of a bundle.
ValuesChoices ==
    { <<>>,
      <<Field(<<"r", "e", "p", "l", "i", "c", "a", "s">>, "regular", Prim("int", <<>>))>>,
      <<Field(<<"d", "b">>, "optional", DatabaseBody)>> }

ComponentLabel(i) == <<"c", Digits[i]>>

\* #Bundle & { components: c1: ..., values: { components: c1: <body>, <more> } }
\* values: { components: [string]: <every>, components: { c1: {...} }, ... }
BundleValue(bodies, every, more) ==
    Struct(<<>>,
           <<Field(<<"a", "p", "i", "V", "e", "r", "s", "i", "o", "n">>, "regular",
                   Literal("string", <<"o", "d", "i", "n", ".", "g", "o", "-", "v", "a", "l", "k", "y", "r", "i", "e", ".", "c", "o", "m", "/", "v", "1", "a", "l", "p", "h", "a", "1">>)),
             Field(<<"k", "i", "n", "d">>, "regular", Literal("string", <<"B", "u", "n", "d", "l", "e">>)),
             Field(<<"v", "a", "l", "u", "e", "s">>, "regular",
                   Struct(<<>>,
                          <<Field(ComponentsName, "regular",
                                  Struct(<<>>,
                                         [i \in DOMAIN bodies |->
                                             Field(ComponentLabel(i), "regular", bodies[i])],
                                         <<Pattern(AnyString, every)>>))>> \o more,
                          <<>>))>>,
           <<>>)

(***************************************************************************)
(* The templates discovery may yield and the references a user may type.   *)
(***************************************************************************)
PkgA == <<"x", "/", "a">>

PkgB == <<"x", "/", "b">>

PkgW == <<"y", "/", "w", "@", "v", "0">>

PkgZA == <<"z", "/", "a">>

\* A last path segment that contains a dot: x/c.d
PkgCD == <<"x", "/", "c", ".", "d">>

PkgAA == <<"x", "/", "a", "/", "a">>

PkgAB == <<"x", "/", "a", "/", "b">>

ModX == <<"x">>

ModY == <<"y", "@", "v", "0">>

ModZ == <<"z">>

NoVersion == <<>>

TemplatePool ==
    { ComponentTemplate(PkgA, <<"#", "W">>, ModX, NoVersion),
      ComponentTemplate(PkgB, <<"#", "W">>, ModX, NoVersion),
      ComponentTemplate(PkgW, <<"#", "G">>, ModY, <<"v", "0">>),
      ComponentTemplate(PkgB, <<"#", "A">>, ModX, NoVersion),
      ComponentTemplate(PkgA, <<"#", "G">>, ModX, NoVersion),
      ComponentTemplate(PkgA, <<"#", "w">>, ModX, NoVersion),
      ComponentTemplate(PkgZA, <<"#", "W">>, ModZ, <<"v", "1">>),
      ComponentTemplate(PkgZA, <<"#", "A">>, ModZ, <<"v", "1">>),
      ComponentTemplate(PkgCD, <<"#", "W">>, ModX, NoVersion),
      ComponentTemplate(PkgAA, <<"#", "W">>, ModX, NoVersion) }

\* The templates of a small bundle, the arguments and the flags of the docs
\* command.
BundlePool ==
    { ComponentTemplate(PkgA, <<"#", "W">>, ModX, NoVersion),
      ComponentTemplate(PkgA, <<"#", "G">>, ModX, NoVersion),
      ComponentTemplate(PkgAA, <<"#", "W">>, ModX, NoVersion),
      ComponentTemplate(PkgAB, <<"#", "W">>, ModX, NoVersion),
      ComponentTemplate(PkgB, <<"#", "A">>, ModX, NoVersion) }

CommandReferences ==
    { <<"W">>, <<"G">>, <<"a", ".", "W">>, PkgA, PkgB, <<"x", "/", "c">>,
      PkgA \o <<":", "#", "W">> }

CommandFormats ==
    { TextFormat, Markdown, <<"m", "d">>, MarkdownMulti, <<"m", "d", "m">>, Mdbook,
      <<"m", "d", "b">>, <<"j", "s", "o", "n">> }

References ==
    { <<"w">>, <<"W">>, <<"a">>, <<"G">>, <<"g">>, <<"b">>,
      <<"b", ".", "W">>, <<"B", ".", "w">>, <<"a", ".", "w">>, <<"w", ".", "g">>,
      <<"c", ".", "d">>, <<"c", ".", "d", ".", "W">>,
      <<"n", "o", "p", "e">>,
      <<"x", "/", "a">>, <<"x", "/", "a", ".", "W">>, <<"a", "/", "W">>, PkgCD,
      PkgA \o <<":", "#", "W">>,
      PkgA \o <<":", "#", "w">>,
      <<"X", "/", "A", ":", "#", "W">>,
      <<"a", ":", "#", "W">>,
      <<"w", ":", "#", "G">>,
      PkgZA \o <<"@", "v", "1", ":", "#", "W">>,
      PkgW \o <<":", "#", "G">>,
      PkgA \o <<":", "#", "W", ":", "#", "G">> }

FieldName(i) == <<"f", Digits[i]>>

PatternName(i) == <<"[", "p", Digits[i], "]">>

EmptyResult == [tmpl |-> <<>>, err |-> [kind |-> "none", listed |-> <<>>]]

(***************************************************************************)
(* Specification Spec: a struct is declared field by field and pattern by  *)
(* pattern, then walked by WalkSchema with either expand option, any       *)
(* number of times.                                                        *)
(***************************************************************************)
Init ==
    /\ value = Struct(<<>>, <<>>, <<>>)
    /\ pkgValue = ComponentValue
    /\ templates = <<>>
    /\ pc = "build"
    /\ expandOpt = FALSE
    /\ fieldsOut = <<>>
    /\ declsOut = <<>>
    /\ reference = <<>>
    /\ resolved = EmptyResult
    /\ firstOut = [expand \in BOOLEAN |-> <<>>]
    /\ rendered = <<>>
    /\ files = <<>>
    /\ runErr = "none"
    /\ walked = <<>>
    /\ opts = Options(TextFormat, <<>>, FALSE)
    /\ raw = <<>>
    /\ ociRef = Invalid
    /\ ociAgain = Invalid

DeclareField ==
    /\ pc = "build"
    /\ Len(value.fields) < MaxFields
    /\ \E c \in FieldChoices :
          value' = [value EXCEPT !.fields =
                       Append(@, Field(FieldName(Len(@) + 1), c.ct, c.value))]
    /\ UNCHANGED <<pkgValue, templates, pc, expandOpt, fieldsOut, declsOut, reference, resolved,
                 firstOut, rendered, files, runErr,
                   walked, opts, raw, ociRef,
                   ociAgain>>

DeclarePattern ==
    /\ pc = "build"
    /\ Len(value.pats) < MaxPatterns
    /\ \E v \in PatternChoices :
          value' = [value EXCEPT !.pats =
                       Append(@, Pattern(PatternName(Len(@) + 1), v))]
    /\ UNCHANGED <<pkgValue, templates, pc, expandOpt, fieldsOut, declsOut, reference, resolved,
                 firstOut, rendered, files, runErr,
                   walked, opts, raw, ociRef,
                   ociAgain>>

CallWalkSchema ==
    /\ \E expand \in BOOLEAN :
          /\ expandOpt' = expand
          /\ fieldsOut' = WalkSchema(value, expand)
    /\ pc' = "WalkSchema"
    /\ UNCHANGED <<value, pkgValue, templates, declsOut, reference, resolved,
                 firstOut, rendered, files, runErr,
                   walked, opts, raw, ociRef,
                   ociAgain>>

Next == DeclareField \/ DeclarePattern \/ CallWalkSchema

Spec == Init /\ [][Next]_vars

(***************************************************************************)
(* Specification SpecRewalk: as Spec, and every call of WalkSchema is       *)
(* compared with the first call that used the same expand option.          *)
(***************************************************************************)
RecordedWalk ==
    /\ \E expand \in BOOLEAN :
          /\ expandOpt' = expand
          /\ fieldsOut' = WalkSchema(value, expand)
          /\ firstOut' = IF firstOut[expand] = <<>>
                         THEN [firstOut EXCEPT ![expand] = <<fieldsOut'>>]
                         ELSE firstOut
    /\ pc' = "WalkSchema"
    /\ UNCHANGED <<value, pkgValue, templates, declsOut, reference, resolved,
                   rendered, files, runErr,
                   walked, opts, raw, ociRef,
                   ociAgain>>

NextRewalk == DeclareField \/ DeclarePattern \/ RecordedWalk

SpecRewalk == Init /\ [][NextRewalk]_vars

(***************************************************************************)
(* Specification SpecConfig: a value is chosen as a template's config;     *)
(* its evaluation, or only the iteration of its pattern constraints, may   *)
(* fail; it is walked directly and through ComponentTemplate.ConfigSchema. *)
(***************************************************************************)
DeclareConfig ==
    /\ pc = "build"
    /\ \E c \in ConfigChoices : value' = c
    /\ pc' = "config"
    /\ UNCHANGED <<pkgValue, templates, expandOpt, fieldsOut, declsOut, reference,
                   resolved, firstOut, rendered, files, runErr,
                   walked, opts, raw, ociRef,
                   ociAgain>>

\* The value turns out to be an evaluation error.
EvaluationFails ==
    /\ pc = "config"
    /\ ~value.iterErr
    /\ value' = [value EXCEPT !.iterErr = TRUE]
    /\ UNCHANGED <<pkgValue, templates, pc, expandOpt, fieldsOut, declsOut, reference,
                   resolved, firstOut, rendered, files, runErr,
                   walked, opts, raw, ociRef,
                   ociAgain>>

\* Only value.Fields(cue.Patterns(true)) returns an error.
PatternPassFails ==
    /\ pc = "config"
    /\ ~value.patErr
    /\ value' = [value EXCEPT !.patErr = TRUE]
    /\ UNCHANGED <<pkgValue, templates, pc, expandOpt, fieldsOut, declsOut, reference,
                   resolved, firstOut, rendered, files, runErr,
                   walked, opts, raw, ociRef,
                   ociAgain>>

CallConfigSchema ==
    /\ pc # "build"
    /\ \E expand \in BOOLEAN, tv \in {TemplateValue(value), BareTemplateValue} :
          /\ expandOpt' = expand
          /\ pkgValue' = tv
          /\ fieldsOut' = ConfigSchema(tv, expand)
    /\ pc' = "ConfigSchema"
    /\ UNCHANGED <<value, templates, declsOut, reference, resolved,
                   firstOut, rendered, files, runErr,
                   walked, opts, raw, ociRef,
                   ociAgain>>

NextConfig ==
    \/ DeclareConfig
    \/ EvaluationFails
    \/ PatternPassFails
    \/ CallWalkSchema
    \/ CallConfigSchema

SpecConfig == Init /\ [][NextConfig]_vars

(***************************************************************************)
(* Specification SpecDecl: the definitions of a package are declared one   *)
(* by one, then scanned by WalkDeclarations with either expand option.     *)
(***************************************************************************)
DeclareDefinition ==
    /\ pc = "build"
    /\ Len(pkgValue.defs) < MaxDecls
    /\ \E c \in DeclChoices :
          pkgValue' = [pkgValue EXCEPT !.defs =
                          Append(@, Definition(DeclName(c.private, Len(@) + 1), c.value))]
    /\ UNCHANGED <<value, templates, pc, expandOpt, fieldsOut, declsOut, reference, resolved,
                 firstOut, rendered, files, runErr,
                   walked, opts, raw, ociRef,
                   ociAgain>>

CallWalkDeclarations ==
    /\ \E expand \in BOOLEAN :
          /\ expandOpt' = expand
          /\ declsOut' = WalkDeclarations(pkgValue, expand)
    /\ pc' = "WalkDeclarations"
    /\ UNCHANGED <<value, pkgValue, templates, fieldsOut, reference, resolved,
                 firstOut, rendered, files, runErr,
                   walked, opts, raw, ociRef,
                   ociAgain>>

NextDecl == DeclareDefinition \/ CallWalkDeclarations

SpecDecl == Init /\ [][NextDecl]_vars

(***************************************************************************)
(* Specification SpecFormat: as SpecDecl, and the declarations returned by *)
(* WalkDeclarations are printed by either formatter to a fresh writer.     *)
(***************************************************************************)
CallFormatDeclarations ==
    /\ pc # "build"
    /\ rendered' = FormatDeclarations(declsOut, 2)
    /\ pc' = "FormatDeclarations"
    /\ UNCHANGED <<value, pkgValue, templates, expandOpt, fieldsOut, declsOut, reference,
                   resolved, firstOut, files, runErr,
                   walked, opts, raw, ociRef,
                   ociAgain>>

CallFormatDeclarationsMarkdown ==
    /\ pc # "build"
    /\ rendered' = FormatDeclarationsMarkdown(declsOut, 0)
    /\ pc' = "FormatDeclarationsMarkdown"
    /\ UNCHANGED <<value, pkgValue, templates, expandOpt, fieldsOut, declsOut, reference,
                   resolved, firstOut, files, runErr,
                   walked, opts, raw, ociRef,
                   ociAgain>>

NextFormat ==
    \/ DeclareDefinition
    \/ CallWalkDeclarations
    \/ CallFormatDeclarations
    \/ CallFormatDeclarationsMarkdown

SpecFormat == Init /\ [][NextFormat]_vars

(***************************************************************************)
(* Specification SpecResolve: discovery yields templates one by one, then  *)
(* a reference is resolved against them.                                   *)
(***************************************************************************)
Discover ==
    /\ pc = "build"
    /\ Len(templates) < MaxTemplates
    /\ \E t \in TemplatePool :
          /\ \A i \in DOMAIN templates : templates[i] # t
          /\ templates' = Append(templates, t)
    /\ UNCHANGED <<value, pkgValue, pc, expandOpt, fieldsOut, declsOut, reference, resolved,
                 firstOut, rendered, files, runErr,
                   walked, opts, raw, ociRef,
                   ociAgain>>

CallResolveReference ==
    /\ pc = "build"
    /\ \E ref \in References :
          /\ reference' = ref
          /\ resolved' = ResolveReference(ref, templates)
    /\ pc' = "ResolveReference"
    /\ UNCHANGED <<value, pkgValue, templates, expandOpt, fieldsOut, declsOut,
                 firstOut, rendered, files, runErr,
                   walked, opts, raw, ociRef,
                   ociAgain>>

NextResolve == Discover \/ CallResolveReference

SpecResolve == Init /\ [][NextResolve]_vars

(***************************************************************************)
(* Specification SpecDirectory: discovery yields templates one by one,     *)
(* then the docs command runs once in a directory format on an empty       *)
(* output directory.                                                       *)
(***************************************************************************)
OutputPath == <<"o", "u", "t">>

CallRun ==
    /\ pc = "build"
    /\ \E ref \in References, format \in DirectoryFormats, expand, noSummary \in BOOLEAN :
          /\ noSummary => format \in {Mdbook, <<"m", "d", "b">>}
          /\ reference' = ref
          /\ expandOpt' = expand
          /\ resolved' = resolvedTemplates(ref, templates)
          /\ \E result \in {run(files, rendered, ref, templates, format, OutputPath, expand,
                                 noSummary)} :
                 /\ files' = result.files
                 /\ rendered' = result.stdout
                 /\ runErr' = result.err
                 /\ walked' = result.walked
          /\ opts' = Options(format, OutputPath, noSummary)
    /\ pc' = "run"
    /\ UNCHANGED <<value, pkgValue, templates, fieldsOut, declsOut, firstOut, raw, ociRef,
                   ociAgain>>

NextDirectory == Discover \/ CallRun

(***************************************************************************)
(* Specification SpecValues: a bundle with some components is loaded, then *)
(* Bundle.ValuesSchema is called on it.                                    *)
(***************************************************************************)
LoadBundle ==
    /\ pc = "build"
    /\ \E n \in 0..MaxComponents :
          \E bodies \in [1..n -> ComponentValuesChoices],
             every \in ComponentPatternChoices, more \in ValuesChoices :
              value' = BundleValue(bodies, every, more)
    /\ pc' = "bundle"
    /\ UNCHANGED <<pkgValue, templates, expandOpt, fieldsOut, declsOut, reference, resolved,
                   firstOut, rendered, files, runErr, walked, opts, raw, ociRef, ociAgain>>

CallValuesSchema ==
    /\ pc \in {"build", "bundle"}
    /\ fieldsOut' = ValuesSchema(value)
    /\ pc' = "ValuesSchema"
    /\ UNCHANGED <<value, pkgValue, templates, expandOpt, declsOut, reference, resolved,
                   firstOut, rendered, files, runErr, walked, opts, raw, ociRef, ociAgain>>

NextValues == LoadBundle \/ CallValuesSchema

SpecValues == Init /\ [][NextValues]_vars

(***************************************************************************)
(* Specification SpecOci: a reference string made of a few pieces is       *)
(* parsed, printed and parsed again.                                       *)
(***************************************************************************)
Tokens ==
    { OciScheme, <<"r", "/", "a">>, <<"r">>, <<"/">>, <<"b">>, <<":">>, <<"@">>,
      <<":", "v", "1">>, <<"s", "h", "a", "2", "5", "6", ":", "f">>, <<"s", "h", "a", "5", "1", "2", ":", "f">> }

CallParseReference ==
    /\ pc = "build"
    /\ \E n \in 0..MaxTokens :
          \E tokens \in [1..n -> Tokens] :
              /\ raw' = Concat(tokens)
              /\ ociRef' = ParseReference(raw')
              /\ ociAgain' = IF ociRef'.err THEN Invalid
                             ELSE ParseReference(ReferenceString(ociRef'))
    /\ pc' = "ParseReference"
    /\ UNCHANGED <<value, pkgValue, templates, expandOpt, fieldsOut, declsOut, reference,
                   resolved, firstOut, rendered, files, runErr, walked, opts>>

NextOci == CallParseReference

SpecOci == Init /\ [][NextOci]_vars

(***************************************************************************)
(* Specification SpecCommand: the templates of a small bundle are          *)
(* discovered, then the docs command runs once with any format, with or    *)
(* without an output path, on an empty output directory.                   *)
(***************************************************************************)
DiscoverBundle ==
    /\ pc = "build"
    /\ Len(templates) < MaxTemplates
    /\ \E t \in BundlePool :
          /\ \A i \in DOMAIN templates : templates[i] # t
          /\ templates' = Append(templates, t)
    /\ UNCHANGED <<value, pkgValue, pc, expandOpt, fieldsOut, declsOut, reference, resolved,
                   firstOut, rendered, files, runErr, walked, opts, raw, ociRef,
                   ociAgain>>

CallRunE ==
    /\ pc = "build"
    /\ \E ref \in CommandReferences, format \in CommandFormats,
          outputPath \in {<<>>, OutputPath}, expand, noSummary \in BOOLEAN :
          /\ reference' = ref
          /\ expandOpt' = expand
          /\ \E result \in {RunE(files, rendered, ref, templates, format, outputPath, expand,
                                  noSummary)} :
                 /\ files' = result.files
                 /\ rendered' = result.stdout
                 /\ runErr' = result.err
                 /\ walked' = result.walked
                 /\ resolved' = IF result.err \in {"requires output",
                                                   "no-summary is only valid with mdbook"}
                                THEN resolved
                                ELSE resolvedTemplates(ref, templates)
          /\ opts' = Options(format, outputPath, noSummary)
    /\ pc' = "RunE"
    /\ UNCHANGED <<value, pkgValue, templates, fieldsOut, declsOut, firstOut, raw, ociRef,
                   ociAgain>>

NextCommand == DiscoverBundle \/ CallRunE

SpecCommand == Init /\ [][NextCommand]_vars

SpecDirectory == Init /\ [][NextDirectory]_vars

(***************************************************************************)
(* Schemas with reference cycles.  cue resolves a reference when the value *)
(* is asked for its fields, so a cyclic schema is a finite text with an    *)
(* unbounded value.  Such a schema is kept as a root struct whose          *)
(* references are unresolved (a reference path, no fields); Unfold gives   *)
(* the value the walker sees, cut off below a number of references.        *)
(***************************************************************************)
NodeName == <<"#", "N", "o", "d", "e">>
PeerName == <<"#", "P", "e", "e", "r">>
TreeName == <<"t", "r", "e", "e">>
NextName == <<"n", "e", "x", "t">>
FirstName == <<"f", "i", "r", "s", "t">>

NodePath == DefSelector(NodeName)
PeerPath == DefSelector(PeerName)
TreePath == DefSelector(NodeName) \o FieldSelector(TreeName)

ReferencePaths == {NodePath, PeerPath, TreePath}

\* next?: #Node          a reference to a struct, not yet resolved
Unresolved(path) == TypeValue("struct", <<>>, path, NoExpr, <<>>, <<>>)

\* next?: #Node & {...}  a unification with a reference, not yet resolved
UnresolvedUnify(path) ==
    [Struct(<<>>, <<>>, <<>>) EXCEPT
        !.expr = [op |-> "and", args |-> <<Unresolved(path), Struct(<<>>, <<>>, <<>>)>>]]

LinkChoices ==
    {Prim("string", <<>>)} \cup {Unresolved(p) : p \in ReferencePaths}
                           \cup {UnresolvedUnify(NodePath)}

\* #Node: {next?: n, tree: {next?: t}}
\* #Peer: {next?: p}
\* first?: f
CyclicSchema(n, t, p, f) ==
    [Struct(<<>>, <<Field(FirstName, "optional", f)>>, <<>>) EXCEPT
        !.defs = << Definition(NodeName,
                       Struct(<<>>,
                              << Field(NextName, "optional", n),
                                 Field(TreeName, "regular",
                                       Struct(<<>>, <<Field(NextName, "optional", t)>>, <<>>)) >>,
                              <<>>)),
                    Definition(PeerName,
                       Struct(<<>>, <<Field(NextName, "optional", p)>>, <<>>)) >>]

\* The path a value refers to: its own, or the one of the first reference
\* among the operands of its & expression.
ReferencePath(v) ==
    IF Len(v.refPath) > 0 THEN v.refPath
    ELSE IF v.expr.op = "and" /\ \E i \in DOMAIN v.expr.args : Len(v.expr.args[i].refPath) > 0
         THEN LET i == CHOOSE j \in DOMAIN v.expr.args :
                          /\ Len(v.expr.args[j].refPath) > 0
                          /\ \A k \in 1..(j - 1) : Len(v.expr.args[k].refPath) = 0
              IN  v.expr.args[i].refPath
         ELSE <<>>

\* root.LookupPath(path): the declaration a reference path leads to.
RECURSIVE Select(_, _)
Select(v, path) ==
    IF path = <<>> THEN v
    ELSE LET among == IF path[1].isDef THEN v.defs ELSE v.fields
             hits == SelectSeq(among, LAMBDA e : e.name = path[1].name)
         IN  Select(hits[1].value, Tail(path))

\* v as the walker sees it: the fields of a referring value are those of the
\* declaration it refers to, resolved in their turn; below horizon
\* references the value is cut off and has no fields.
RECURSIVE Unfold(_, _, _)
Unfold(root, v, horizon) ==
    LET from == IF ReferencePath(v) = <<>> THEN v ELSE Select(root, ReferencePath(v))
        below == IF ReferencePath(v) = <<>> THEN horizon ELSE horizon - 1
    IN  IF ReferencePath(v) # <<>> /\ horizon = 0 THEN v
        ELSE [v EXCEPT !.fields =
                 [i \in DOMAIN from.fields |->
                     [from.fields[i] EXCEPT !.value = Unfold(root, @, below)]]]

\* A walk that passes through more references than the schema has
\* declarations to refer to has met one of them twice and, being a function
\* of the value alone, meets it again without end.
Horizon == Cardinality(ReferencePaths) + 1

\* The walk returns: it gives the same tree whether the value is cut off at
\* the horizon or one reference deeper, so it never looked that deep.
Returns(v, expand) ==
    WalkSchema(Unfold(v, v, Horizon), expand) = WalkSchema(Unfold(v, v, Horizon + 1), expand)

(***************************************************************************)
(* Specification SpecCycle: a schema whose declarations refer to each      *)
(* other is loaded and walked.  A walk that does not return exhausts the   *)
(* goroutine stack and the Go runtime ends the process.                    *)
(***************************************************************************)
LoadSchema ==
    /\ pc = "build"
    /\ \E n, t, p, f \in LinkChoices : value' = CyclicSchema(n, t, p, f)
    /\ pc' = "schema"
    /\ UNCHANGED <<pkgValue, templates, expandOpt, fieldsOut, declsOut, reference, resolved,
                   firstOut, rendered, files, runErr, walked, opts, raw, ociRef, ociAgain>>

CallWalkSchemaCyclic ==
    /\ pc = "schema"
    /\ \E expand \in BOOLEAN :
          /\ expandOpt' = expand
          /\ IF Returns(value, expand)
             THEN /\ fieldsOut' = WalkSchema(Unfold(value, value, Horizon), expand)
                  /\ pc' = "WalkSchema"
             ELSE /\ fieldsOut' = fieldsOut
                  /\ pc' = "stack overflow"
    /\ UNCHANGED <<value, pkgValue, templates, declsOut, reference, resolved,
                   firstOut, rendered, files, runErr, walked, opts, raw, ociRef, ociAgain>>

NextCycle == LoadSchema \/ CallWalkSchemaCyclic

SpecCycle == Init /\ [][NextCycle]_vars

(***************************************************************************)
(* The vocabulary of the properties: what a schema says, read off the      *)
(* schema itself and not through the walker's functions.                   *)
(***************************************************************************)
CarriesOdin(v, arg) == \E i \in DOMAIN v.attrs : v.attrs[i] = Odin(<<arg>>)

DefinitionBodies ==
    { [name |-> InnerName, body |-> InnerBody],
      [name |-> SealedName, body |-> SealedBody],
      [name |-> StoreName, body |-> StoreBody] }

\* The definitions v is a reference to, pure (#D) or unified (#D & {...}).
ReferencedDefs(v) ==
    {d \in DefinitionBodies :
        \/ v = RefTo(d.name, d.body, v.attrs)
        \/ v = UnifyWith(d.name, d.body, v.attrs)}

ReferencedName(v) == (CHOOSE d \in ReferencedDefs(v) : TRUE).name

IsInlineStruct(v) == v.kind = "struct" /\ v.refPath = <<>> /\ v.expr.op = "none"

IsDisjunction(v) == v.expr.op = "or"

\* The names of the fields, then of the pattern constraints, of v that do not
\* carry @odin(hidden).
VisibleNames(v) ==
    LET fs == SelectSeq(v.fields, LAMBDA e : ~CarriesOdin(e.value, "hidden"))
        ps == SelectSeq(v.pats, LAMBDA e : ~CarriesOdin(e.value, "hidden"))
    IN  [i \in DOMAIN fs |-> fs[i].name] \o [i \in DOMAIN ps |-> ps[i].name]

ChildNames(o) == [i \in DOMAIN o.Children |-> o.Children[i].Name]

SeqToSet(q) == {q[i] : i \in DOMAIN q}

Entries(v) == SeqToSet(v.fields) \cup SeqToSet(v.pats)

\* The nodes of out that stand for entry e of the walked struct.
NodesFor(out, e) ==
    {o \in SeqToSet(out) : o.Name = e.name /\ o.IsPattern = (e.ct = "pattern")}

RECURSIVE CollapseOrRecurse(_, _, _)
CollapseOrRecurse(v, out, expand) ==
    \A e \in Entries(v) :
        ~CarriesOdin(e.value, "hidden") =>
            /\ NodesFor(out, e) # {}
            /\ \A o \in NodesFor(out, e) :
                  IF IsDisjunction(e.value) THEN TRUE
                  ELSE IF ReferencedDefs(e.value) # {}
                  THEN CarriesOdin(e.value, "expand")
                       \/ IF ~expand
                          THEN o.Type = ReferencedName(e.value) /\ o.Children = <<>>
                          ELSE /\ ChildNames(o) = VisibleNames(e.value)
                               /\ CollapseOrRecurse(e.value, o.Children, expand)
                  ELSE IsInlineStruct(e.value)
                       => CollapseOrRecurse(e.value, o.Children, expand)

\* C1: in every struct walked by WalkSchema, at every depth, a visible field
\* whose value is a reference to a definition and that carries no
\* @odin(expand) has, with expand=false, the definition's name as type and no
\* children, and, with expand=true, the definition's visible fields as
\* children.
C1_CollapseOrRecurse ==
    pc = "WalkSchema" => CollapseOrRecurse(value, fieldsOut, expandOpt)

C1_Witness ==
    /\ pc = "WalkSchema"
    /\ expandOpt
    /\ \E i \in DOMAIN value.fields :
          /\ value.fields[i].value = RefTo(InnerName, InnerBody, <<>>)
          /\ \E o \in NodesFor(fieldsOut, value.fields[i]) :
                ChildNames(o) = << <<"v", "a", "l", "u", "e">> >>

\* C2: a field that references a definition and carries @odin(expand) is
\* expanded by WalkSchema whatever the expand option: its children are the
\* definition's visible fields and its type is not the definition's name.
C2_ForceExpandAlwaysExpands ==
    pc = "WalkSchema" =>
        \A e \in SeqToSet(value.fields) :
            (/\ ReferencedDefs(e.value) # {}
             /\ CarriesOdin(e.value, "expand")
             /\ ~CarriesOdin(e.value, "hidden"))
            => /\ NodesFor(fieldsOut, e) # {}
               /\ \A o \in NodesFor(fieldsOut, e) :
                     /\ ChildNames(o) = VisibleNames(e.value)
                     /\ o.Type # ReferencedName(e.value)

\* The declarations of out that stand for entry e of the scanned package.
DeclsFor(out, e) == {d \in SeqToSet(out) : d.Name = e.name}

\* C3: a declaration returned by WalkDeclarations that references a definition
\* (pure or unified) has, without @odin(expand) and with expand=false, the
\* definition's name as type and no children, and, with @odin(expand), the
\* definition's visible fields as children even with expand=false.
C3_DeclarationsCollapseOrRecurse ==
    pc = "WalkDeclarations" =>
        \A e \in SeqToSet(pkgValue.defs) :
            ReferencedDefs(e.value) # {} =>
                \A d \in DeclsFor(declsOut, e) :
                    IF CarriesOdin(e.value, "expand")
                    THEN ChildNames(d) = VisibleNames(e.value)
                    ELSE ~expandOpt =>
                            d.Type = ReferencedName(e.value) /\ d.Children = <<>>

RECURSIVE NoHiddenNode(_, _)
NoHiddenNode(out, v) ==
    \A o \in SeqToSet(out) :
        \E e \in Entries(v) :
            /\ o \in NodesFor(out, e)
            /\ ~CarriesOdin(e.value, "hidden")
            /\ NoHiddenNode(o.Children, e.value)

\* C4: every node of the tree returned by WalkSchema, at every depth, stands
\* for a field or pattern constraint that does not carry @odin(hidden).
C4_NoHiddenAnywhere ==
    pc = "WalkSchema" => NoHiddenNode(fieldsOut, value)

C4_Witness ==
    /\ pc = "WalkSchema"
    /\ expandOpt
    /\ \E e \in SeqToSet(value.fields) :
          CarriesOdin(e.value, "hidden") /\ CarriesOdin(e.value, "expand")
    /\ \E e \in SeqToSet(value.fields) :
          /\ e.value = UnifyWith(StoreName, StoreBody, <<>>)
          /\ \E o \in NodesFor(fieldsOut, e) : Len(o.Children) > 0
    /\ \E e \in SeqToSet(value.pats) : CarriesOdin(e.value, "hidden")

HasOdinAnnotation(v) == \E i \in DOMAIN v.attrs : v.attrs[i].name = "odin"

\* The category of the first @odin annotation of v.
AnnotatedCategory(v) ==
    LET odins == SelectSeq(v.attrs, LAMBDA a : a.name = "odin")
    IN  IF odins[1].args = <<>> THEN "other"
        ELSE IF odins[1].args[1] = "ref" THEN "ref"
        ELSE IF odins[1].args[1] = "ext" THEN "ext"
        ELSE "other"

DeclEntries(v) == SeqToSet(v.fields) \cup SeqToSet(v.defs)

\* C5: every declaration returned by WalkDeclarations stands for an entry that
\* carries an @odin annotation, and its category is Reference for the
\* argument ref, Extension for ext and Other for any other or no argument.
C5_AnnotatedAndCategorised ==
    pc = "WalkDeclarations" =>
        \A d \in SeqToSet(declsOut) :
            /\ d.Category \in {"ref", "ext", "other"}
            /\ \E e \in DeclEntries(pkgValue) :
                  /\ e.name = d.Name
                  /\ HasOdinAnnotation(e.value)
                  /\ d.Category = AnnotatedCategory(e.value)

C5_Witness ==
    /\ pc = "WalkDeclarations"
    /\ \E e \in SeqToSet(pkgValue.defs) :
          /\ e.value = DeclBody(<<Odin(<<"misc">>)>>)
          /\ \E d \in DeclsFor(declsOut, e) : d.Category = "other"
    /\ \E e \in SeqToSet(pkgValue.defs) :
          ~HasOdinAnnotation(e.value) /\ DeclsFor(declsOut, e) = {}

IsPrivateName(name) == Len(name) >= 2 /\ name[1] = "_" /\ name[2] = "#"

\* C6 as claimed: a private (_#) definition that carries an @odin annotation
\* (other than hidden) is returned by WalkDeclarations.
C6_PrivateAnnotatedSurfaced ==
    pc = "WalkDeclarations" =>
        \A e \in SeqToSet(pkgValue.defs) :
            (IsPrivateName(e.name) /\ HasOdinAnnotation(e.value)
                 /\ ~CarriesOdin(e.value, "hidden"))
            => DeclsFor(declsOut, e) # {}

\* C6 as amended: no declaration returned by WalkDeclarations has a private
\* (_#) name, whether or not the definition carries an @odin annotation.
C6_PrivateNeverSurfaced ==
    pc = "WalkDeclarations" =>
        \A d \in SeqToSet(declsOut) : ~IsPrivateName(d.Name)

C6_Witness ==
    /\ pc = "WalkDeclarations"
    /\ \E e \in SeqToSet(pkgValue.defs) :
          /\ IsPrivateName(e.name)
          /\ CarriesOdin(e.value, "ref")
          /\ DeclsFor(declsOut, e) = {}
    /\ Len(declsOut) > 0

\* C7: a definition that carries @odin(hidden), whatever other @odin
\* annotations it carries and in whatever order, is not returned by
\* WalkDeclarations.
C7_HiddenDeclarationNeverSurfaced ==
    pc = "WalkDeclarations" =>
        \A e \in SeqToSet(pkgValue.defs) :
            CarriesOdin(e.value, "hidden") => DeclsFor(declsOut, e) = {}

StripSigil(name) == IF Len(name) > 0 /\ name[1] = "#" THEN Tail(name) ELSE name

IsQualified(ref) == \E k \in 1..(Len(ref) - 1) : ref[k] = ":" /\ ref[k + 1] = "#"

BareNameMatch(ref, t) == ToLower(StripSigil(t.Name)) = ToLower(ref)

ShorthandMatch(ref, t) == ToLower(shorthandName(t.Package)) = ToLower(ref)

DottedMatch(ref, t) ==
    \E k \in DOMAIN ref :
        /\ ref[k] = "."
        /\ \A m \in (k + 1)..Len(ref) : ref[m] # "."
        /\ ToLower(shorthandName(t.Package)) = ToLower(SubSeq(ref, 1, k - 1))
        /\ ToLower(StripSigil(t.Name)) = ToLower(SubSeq(ref, k + 1, Len(ref)))

\* The ambiguous-reference listing of the candidates matching the bare name.
AmbiguousListing(ref, tmpls) ==
    LET ms == SelectSeq(tmpls, LAMBDA t : BareNameMatch(ref, t))
    IN  [i \in DOMAIN ms |->
            shorthandName(ms[i].Package) \o <<".">> \o StripSigil(ms[i].Name)
                \o <<" ", "(">> \o ms[i].Package \o <<")">>]

ReportsBareNameAmbiguity ==
    /\ resolved.tmpl = <<>>
    /\ resolved.err.kind = "ambiguous"
    /\ resolved.err.listed = AmbiguousListing(reference, templates)

\* C8 as claimed: for a reference without ":#", two or more candidates whose
\* bare definition name equals it give an ambiguous-reference error listing
\* exactly them with their packages, and never a template.
C8_BareAmbiguityAlwaysReported ==
    (/\ pc = "ResolveReference"
     /\ ~IsQualified(reference)
     /\ Cardinality({i \in DOMAIN templates : BareNameMatch(reference, templates[i])}) >= 2)
    => ReportsBareNameAmbiguity

\* C8 as amended: the ambiguity is reported unless a later rule matches, that
\* is unless exactly one candidate's package shorthand equals the reference
\* or some candidate matches it in dotted form.
C8_BareAmbiguityReportedUnlessLaterRuleMatches ==
    (/\ pc = "ResolveReference"
     /\ ~IsQualified(reference)
     /\ Cardinality({i \in DOMAIN templates : BareNameMatch(reference, templates[i])}) >= 2
     /\ Cardinality({i \in DOMAIN templates : ShorthandMatch(reference, templates[i])}) # 1
     /\ \A i \in DOMAIN templates : ~DottedMatch(reference, templates[i]))
    => ReportsBareNameAmbiguity

C8_Witness ==
    /\ pc = "ResolveReference"
    /\ ~IsQualified(reference)
    /\ Cardinality({i \in DOMAIN templates : BareNameMatch(reference, templates[i])}) >= 2
    /\ Cardinality({i \in DOMAIN templates : ShorthandMatch(reference, templates[i])}) >= 2
    /\ resolved.err.kind = "ambiguous"
    /\ Len(resolved.err.listed) = 2

\* C9: for a reference without ":#", exactly one candidate whose bare
\* definition name equals it is returned, also when the reference equals the
\* package shorthand of other candidates.
C9_UniqueBareNameWins ==
    (/\ pc = "ResolveReference"
     /\ ~IsQualified(reference))
    => \A i \in DOMAIN templates :
          (/\ BareNameMatch(reference, templates[i])
           /\ \A j \in DOMAIN templates : BareNameMatch(reference, templates[j]) => j = i)
          => /\ resolved.tmpl = <<templates[i]>>
             /\ resolved.err.kind = "none"

C9_Witness ==
    /\ pc = "ResolveReference"
    /\ ~IsQualified(reference)
    /\ Cardinality({i \in DOMAIN templates : BareNameMatch(reference, templates[i])}) = 1
    /\ \E j \in DOMAIN templates :
          /\ ShorthandMatch(reference, templates[j])
          /\ ~BareNameMatch(reference, templates[j])
    /\ Len(resolved.tmpl) = 1
    /\ BareNameMatch(reference, resolved.tmpl[1])

\* The two sides of the first ":#" of a qualified reference.
QualifiedSides(ref) ==
    LET k == CHOOSE n \in 1..(Len(ref) - 1) :
                 /\ ref[n] = ":" /\ ref[n + 1] = "#"
                 /\ \A m \in 1..(n - 1) : ~(ref[m] = ":" /\ ref[m + 1] = "#")
    IN  [pkg |-> SubSeq(ref, 1, k - 1), def |-> SubSeq(ref, k + 2, Len(ref))]

QualifiedMatch(ref, t) ==
    /\ t.Name = <<"#">> \o QualifiedSides(ref).def
    /\ \/ t.Package = QualifiedSides(ref).pkg
       \/ t.Package \o <<"@">> \o t.Version = QualifiedSides(ref).pkg

DottedIndexes(ref, tmpls) == {i \in DOMAIN tmpls : DottedMatch(ref, tmpls[i])}

\* The part of a dotted reference after its last dot.
DottedDefinition(ref) ==
    LET k == CHOOSE n \in DOMAIN ref :
                 ref[n] = "." /\ \A m \in (n + 1)..Len(ref) : ref[m] # "."
    IN  SubSeq(ref, k + 1, Len(ref))

\* C11: a reference without ":#" that is not matched by exactly one bare
\* definition name nor by exactly one package shorthand, and that some
\* candidate matches in dotted form (split on the last dot, both sides
\* compared case-insensitively), resolves to the first such candidate in
\* sequence order, also when the definition part alone is ambiguous.
C11_FirstDottedMatchWins ==
    (/\ pc = "ResolveReference"
     /\ ~IsQualified(reference)
     /\ Cardinality({i \in DOMAIN templates : BareNameMatch(reference, templates[i])}) # 1
     /\ Cardinality({i \in DOMAIN templates : ShorthandMatch(reference, templates[i])}) # 1
     /\ DottedIndexes(reference, templates) # {})
    => \E i \in DottedIndexes(reference, templates) :
          /\ \A j \in DottedIndexes(reference, templates) : i <= j
          /\ resolved.tmpl = <<templates[i]>>
          /\ resolved.err.kind = "none"

C11_Witness ==
    /\ pc = "ResolveReference"
    /\ ~IsQualified(reference)
    /\ Cardinality(DottedIndexes(reference, templates)) >= 2
    /\ Cardinality({i \in DOMAIN templates :
                       BareNameMatch(DottedDefinition(reference), templates[i])}) >= 2
    /\ \E i \in DottedIndexes(reference, templates) :
          /\ \A j \in DottedIndexes(reference, templates) : i <= j
          /\ resolved.tmpl = <<templates[i]>>

\* The last segment of an import path, without its @version suffix.
LastSegmentNoVersion(pkg) ==
    LET starts == {k \in 1..(Len(pkg) + 1) :
                      /\ k = 1 \/ pkg[k - 1] = "/"
                      /\ \A m \in k..Len(pkg) : pkg[m] # "/"}
        from == CHOOSE k \in starts : TRUE
        seg == SubSeq(pkg, from, Len(pkg))
        ats == {k \in DOMAIN seg : seg[k] = "@"}
    IN  IF ats = {} THEN seg
        ELSE SubSeq(seg, 1, (CHOOSE k \in ats : \A m \in ats : k <= m) - 1)

SegmentMatch(ref, t) == ToLower(LastSegmentNoVersion(t.Package)) = ToLower(ref)

\* C12: for a reference without ":#" that equals no candidate's bare
\* definition name, a candidate that is the only one whose package shorthand
\* (last import-path segment, @version suffix stripped) equals the reference
\* case-insensitively is the one ResolveReference returns.
C12_UniqueShorthandWins ==
    (/\ pc = "ResolveReference"
     /\ ~IsQualified(reference)
     /\ \A i \in DOMAIN templates : ~BareNameMatch(reference, templates[i]))
    => \A i \in DOMAIN templates :
          (/\ SegmentMatch(reference, templates[i])
           /\ \A j \in DOMAIN templates : SegmentMatch(reference, templates[j]) => j = i)
          => /\ resolved.tmpl = <<templates[i]>>
             /\ resolved.err.kind = "none"

C12_Witness ==
    /\ pc = "ResolveReference"
    /\ ~IsQualified(reference)
    /\ Len(templates) >= 2
    /\ \A i \in DOMAIN templates : ~BareNameMatch(reference, templates[i])
    /\ Cardinality({i \in DOMAIN templates : SegmentMatch(reference, templates[i])}) = 1
    /\ Len(resolved.tmpl) = 1
    /\ Contains(resolved.tmpl[1].Package, <<"@">>)
    /\ reference # LastSegmentNoVersion(resolved.tmpl[1].Package)
    /\ SegmentMatch(reference, resolved.tmpl[1])

\* The shorthand.Definition display form of every candidate, in order.
DisplayForms(tmpls) ==
    [i \in DOMAIN tmpls |->
        LastSegmentNoVersion(tmpls[i].Package) \o <<".">> \o StripSigil(tmpls[i].Name)]

\* No candidate matches the reference under any of the four rules.
NothingMatches(ref, tmpls) ==
    \A i \in DOMAIN tmpls :
        /\ IsQualified(ref) => ~QualifiedMatch(ref, tmpls[i])
        /\ ~BareNameMatch(ref, tmpls[i])
        /\ ~SegmentMatch(ref, tmpls[i])
        /\ ~DottedMatch(ref, tmpls[i])

\* C13: whenever no candidate matches the reference under any rule,
\* ResolveReference returns no template and an error that lists the
\* shorthand.Definition display form of every candidate, in candidate order.
C13_UnresolvedListsEveryCandidate ==
    (pc = "ResolveReference" /\ NothingMatches(reference, templates))
    => /\ resolved.tmpl = <<>>
       /\ resolved.err.kind # "none"
       /\ resolved.err.listed = DisplayForms(templates)

RECURSIVE ChildrenOrType(_)
ChildrenOrType(out) ==
    \A o \in SeqToSet(out) :
        /\ (o.Children # <<>>) # (o.Type # <<>>)
        /\ ChildrenOrType(o.Children)

\* The walker descends into v: a struct that is not written as a disjunction
\* and is not collapsed to the name of the definition it refers to.
Descended(v, expand) ==
    /\ v.kind = "struct"
    /\ ~IsDisjunction(v)
    /\ ReferencedDefs(v) = {} \/ expand

RECURSIVE EmptyStructsMarked(_, _, _)
EmptyStructsMarked(v, out, expand) ==
    \A e \in Entries(v) :
        (~CarriesOdin(e.value, "hidden") /\ Descended(e.value, expand)) =>
            /\ NodesFor(out, e) # {}
            /\ \A o \in NodesFor(out, e) :
                  IF VisibleNames(e.value) = <<>>
                  THEN o.Children = <<>> /\ o.Type = <<"{", ".", ".", ".", "}">>
                  ELSE /\ o.Children # <<>>
                       /\ EmptyStructsMarked(e.value, o.Children, expand)

BranchText(b) ==
    IF b.lit # <<>> /\ b.refPath = <<>>
    THEN IF b.kind = "string" THEN <<"\"">> \o b.lit[1] \o <<"\"">> ELSE b.lit[1]
    ELSE Sprint(b)

RECURSIVE BranchesJoined(_)
BranchesJoined(args) ==
    IF Len(args) = 1 THEN BranchText(args[1])
    ELSE BranchesJoined(SubSeq(args, 1, Len(args) - 1))
             \o <<" ", "|", " ">> \o BranchText(args[Len(args)])

RECURSIVE DisjunctionsJoined(_, _, _)
DisjunctionsJoined(v, out, expand) ==
    \A e \in Entries(v) :
        ~CarriesOdin(e.value, "hidden") =>
            /\ NodesFor(out, e) # {}
            /\ \A o \in NodesFor(out, e) :
                  IF IsDisjunction(e.value) /\ Len(e.value.expr.args) >= 1
                  THEN /\ o.Type = BranchesJoined(e.value.expr.args)
                       /\ o.Children = <<>>
                  ELSE Descended(e.value, expand)
                       => DisjunctionsJoined(e.value, o.Children, expand)

\* C16: a field, at any depth WalkSchema reaches, whose value is written as a
\* disjunction of one or more branches has as type its branches joined by
\* " | " in branch order (a concrete string quoted, another concrete value as
\* its literal) and has no children, with either expand option, also when
\* the branches are structs or references to definitions.
C16_DisjunctionIsBranchList ==
    pc = "WalkSchema" => DisjunctionsJoined(value, fieldsOut, expandOpt)

C16_Witness ==
    /\ pc = "WalkSchema"
    /\ expandOpt
    /\ \E e \in SeqToSet(value.fields) :
          /\ e.value = EnvDisjunction
          /\ \E o \in NodesFor(fieldsOut, e) :
                o.Type = <<"\"", "d", "e", "v", "\"", " ", "|", " ",
                           "\"", "p", "r", "o", "d", "\"">>
    /\ \E e \in SeqToSet(value.fields) :
          /\ e.value = NestedBody
          /\ \E o \in NodesFor(fieldsOut, e) :
                \E c \in SeqToSet(o.Children) :
                    /\ c.Name = <<"e", "i", "t", "h", "e", "r">>
                    /\ c.Children = <<>>
                    /\ c.Type = InnerName \o <<" ", "|", " ">> \o SealedName

\* The display names of the primitive kinds.
PrimitiveNames ==
    [string |-> <<"s", "t", "r", "i", "n", "g">>,
     bool |-> <<"b", "o", "o", "l">>,
     int |-> <<"i", "n", "t">>,
     float |-> <<"f", "l", "o", "a", "t">>,
     number |-> <<"n", "u", "m", "b", "e", "r">>,
     bytes |-> <<"b", "y", "t", "e", "s">>,
     null |-> <<"n", "u", "l", "l">>]

\* v is a primitive kind with a concrete default, as in bool | *true: what is
\* left of its expression besides the default is the kind itself.
PrimitiveWithDefault(v) ==
    /\ v.dflt # <<>>
    /\ v.dflt[1].lit # <<>>
    /\ v.kind \in DOMAIN PrimitiveNames
    /\ \/ v.expr.op = "none"
       \/ v.expr.op = "or" /\ v.expr.args = <<Prim(v.kind, <<>>)>>

DefaultText(v) ==
    IF v.kind = "string" THEN <<"\"">> \o v.dflt[1].lit[1] \o <<"\"">>
    ELSE v.dflt[1].lit[1]

RECURSIVE DefaultsWithType(_, _, _)
DefaultsWithType(v, out, expand) ==
    \A e \in Entries(v) :
        ~CarriesOdin(e.value, "hidden") =>
            /\ NodesFor(out, e) # {}
            /\ \A o \in NodesFor(out, e) :
                  IF PrimitiveWithDefault(e.value)
                  THEN /\ o.Default # <<>>
                       /\ o.Default = DefaultText(e.value)
                       /\ o.Type = PrimitiveNames[e.value.kind]
                  ELSE Descended(e.value, expand)
                       => DefaultsWithType(e.value, o.Children, expand)

\* C17: a field, at any depth WalkSchema reaches, whose value is a primitive
\* kind with a concrete default (bool | *true) has both a non-empty default,
\* the default's literal, and the display name of the primitive kind as type.
C17_DefaultAndPrimitiveType ==
    pc = "WalkSchema" => DefaultsWithType(value, fieldsOut, expandOpt)

C17_Witness ==
    /\ pc = "WalkSchema"
    /\ \E e \in SeqToSet(value.fields) :
          /\ e.value = NestedBody
          /\ \E o \in NodesFor(fieldsOut, e) :
                \E c \in SeqToSet(o.Children) :
                    /\ c.Name = <<"o", "n">>
                    /\ c.Default = <<"t", "r", "u", "e">>
                    /\ c.Type = <<"b", "o", "o", "l">>
    /\ \E e \in SeqToSet(value.fields) :
          /\ e.value = UnifyWith(StoreName, StoreBody, <<>>)
          /\ \E o \in NodesFor(fieldsOut, e) :
                \E c \in SeqToSet(o.Children) :
                    /\ c.Name = <<"k", "i", "n", "d">>
                    /\ c.Default = <<"\"", "S", "\"">>
                    /\ c.Type = <<"s", "t", "r", "i", "n", "g">>

\* v cannot be iterated as a struct: it is of another kind or its evaluation
\* failed.
NotIterable(v) == v.kind # "struct" \/ v.iterErr

\* The config field a template value declares, if any.
DeclaredConfig(tv) ==
    SelectSeq(tv.fields, LAMBDA e : e.name = <<"c", "o", "n", "f", "i", "g">>)

VisibleFieldNames(v) ==
    LET fs == SelectSeq(v.fields, LAMBDA e : ~CarriesOdin(e.value, "hidden"))
    IN  [i \in DOMAIN fs |-> fs[i].name]

\* C18: WalkSchema on a value that cannot be iterated as a struct, and
\* ConfigSchema on a template whose config is missing or cannot be iterated,
\* return an empty field list; when only the pattern pass fails, WalkSchema
\* returns the visible regular fields, in order, and no pattern field.
C18_NotIterableIsEmpty ==
    /\ (pc = "WalkSchema" /\ NotIterable(value)) => fieldsOut = <<>>
    /\ (pc = "ConfigSchema"
          /\ \/ DeclaredConfig(pkgValue) = <<>>
             \/ NotIterable(DeclaredConfig(pkgValue)[1].value))
       => fieldsOut = <<>>
    /\ (pc = "WalkSchema" /\ ~NotIterable(value) /\ value.patErr)
       => /\ [i \in DOMAIN fieldsOut |-> fieldsOut[i].Name] = VisibleFieldNames(value)
          /\ \A i \in DOMAIN fieldsOut : ~fieldsOut[i].IsPattern

C18_PatternPassWitness ==
    /\ pc = "WalkSchema"
    /\ value.kind = "struct"
    /\ ~value.iterErr
    /\ value.patErr
    /\ Len(value.pats) > 0
    /\ Len(fieldsOut) = 4

C18_Witness ==
    /\ pc = "ConfigSchema"
    /\ DeclaredConfig(pkgValue) # <<>>
    /\ DeclaredConfig(pkgValue)[1].value.iterErr
    /\ Len(DeclaredConfig(pkgValue)[1].value.fields) > 0
    /\ fieldsOut = <<>>

(***************************************************************************)
(* C19: FormatDeclarations and FormatDeclarationsMarkdown emit the         *)
(* category sections in the fixed order Reference, Extension, Other        *)
(* whatever the order of the input list, emit no header for a category     *)
(* without members, and list the declarations of a section in their input  *)
(* order.  Checked on the headers and declaration lines of the output:     *)
(* they are, for each category in that order and only if it has members,   *)
(* its header followed by the names of its members in input order.         *)
(***************************************************************************)
Printed == pc \in {"FormatDeclarations", "FormatDeclarationsMarkdown"}

SectionLines(lines) ==
    LET kept == SelectSeq(lines, LAMBDA l : l.kind \in {"header", "decl"})
    IN  [i \in DOMAIN kept |-> [kind |-> kept[i].kind, text |-> kept[i].text]]

CategoryOrder == <<DeclarationRef, DeclarationExt, DeclarationOther>>

HeaderOf(category) ==
    IF pc = "FormatDeclarationsMarkdown"
    THEN CASE category = DeclarationRef -> ReferencesHeaderMarkdown
           [] category = DeclarationExt -> ExtensionsHeaderMarkdown
           [] OTHER -> DeclarationsHeaderMarkdown
    ELSE CASE category = DeclarationRef -> ReferencesHeader
           [] category = DeclarationExt -> ExtensionsHeader
           [] OTHER -> DeclarationsHeader

MembersOf(category) == SelectSeq(declsOut, LAMBDA d : d.Category = category)

SectionOf(category) ==
    IF Len(MembersOf(category)) = 0 THEN <<>>
    ELSE <<[kind |-> "header", text |-> HeaderOf(category)]>>
             \o [i \in DOMAIN MembersOf(category) |->
                    [kind |-> "decl", text |-> MembersOf(category)[i].Name]]

C19_SectionsInFixedOrder ==
    Printed =>
        SectionLines(rendered)
            = SectionOf(CategoryOrder[1]) \o SectionOf(CategoryOrder[2])
                  \o SectionOf(CategoryOrder[3])

\* An Other or Extension declaration precedes a Reference in the input, one
\* category has no member, and the output starts with the References section.
C19_Witness ==
    /\ Printed
    /\ Len(declsOut) >= 2
    /\ declsOut[1].Category # DeclarationRef
    /\ declsOut[2].Category = DeclarationRef
    /\ \E category \in {DeclarationExt, DeclarationOther} : Len(MembersOf(category)) = 0
    /\ SectionLines(rendered)[1].text = HeaderOf(DeclarationRef)
    /\ SectionLines(rendered)[2].text = declsOut[2].Name

(***************************************************************************)
(* C20: in the directory modes every resolved template is written to its   *)
(* own file <output>/<package shorthand>/<definition name>.md: two         *)
(* distinct resolved templates never have the same path, and the number of *)
(* template files produced equals the number of resolved templates.        *)
(***************************************************************************)
TemplatePath(tmpl) ==
    JoinPath(<<OutputPath, shorthandName(tmpl.Package), TrimPrefix(tmpl.Name, <<"#">>) \o MdExt>>)

TemplateFiles ==
    {i \in DOMAIN files : files[i].path # JoinPath(<<OutputPath, SummaryName>>)}

Documented == pc = "run" /\ resolved.err.kind = "none"

C20_OneFilePerTemplate ==
    Documented =>
        /\ \A i, j \in DOMAIN resolved.tmpl :
               i # j => TemplatePath(resolved.tmpl[i]) # TemplatePath(resolved.tmpl[j])
        /\ Cardinality(TemplateFiles) = Len(resolved.tmpl)

\* Every resolved template's path holds a file, and it is the page of the
\* template written there last.
C20_EveryPathWritten ==
    Documented =>
        \A i \in DOMAIN resolved.tmpl :
            \E k \in TemplateFiles :
                /\ files[k].path = TemplatePath(resolved.tmpl[i])
                /\ \E j \in DOMAIN resolved.tmpl :
                       /\ TemplatePath(resolved.tmpl[j]) = files[k].path
                       /\ files[k].content[1].text = resolved.tmpl[j].Package
                       /\ files[k].content[1].type = resolved.tmpl[j].Name

\* A package path resolves to several templates that all get a file.
C20_SeveralFiles ==
    /\ Documented
    /\ Len(resolved.tmpl) >= 2
    /\ Cardinality(TemplateFiles) = Len(resolved.tmpl)

(***************************************************************************)
(* C21: an unsupported output request, an unrecognized format selector or  *)
(* a directory-mode format without an output directory, ends in an error,  *)
(* and no ConfigSchema walk and no output write is performed before the    *)
(* error is returned.                                                      *)
(***************************************************************************)
Commanded == pc = "RunE"

UnrecognizedFormat ==
    normalizeFormat(opts.Format) \notin {TextFormat, Markdown, MarkdownMulti, Mdbook}

DirectoryWithoutOutput ==
    /\ normalizeFormat(opts.Format) \in {MarkdownMulti, Mdbook}
    /\ opts.OutputPath = <<>>

C21_UnsupportedRequestRejectedBeforeWalk ==
    Commanded /\ (UnrecognizedFormat \/ DirectoryWithoutOutput) =>
        /\ runErr # "none"
        /\ walked = <<>>
        /\ files = <<>>
        /\ rendered = <<>>

\* The reference resolves and the format is not recognized.
C21_Witness ==
    /\ Commanded
    /\ UnrecognizedFormat
    /\ resolved.err.kind = "none"
    /\ Len(resolved.tmpl) >= 2
    /\ runErr = "unsupported output format"

\* A directory format without an output directory.
C21_DirectoryWitness ==
    /\ Commanded
    /\ DirectoryWithoutOutput
    /\ Len(templates) >= 2
    /\ runErr = "requires output"

\* A supported request walks every resolved template.
C21_SupportedWalks ==
    /\ Commanded
    /\ runErr = "none"
    /\ Len(walked) >= 2
    /\ rendered # <<>>

(***************************************************************************)
(* C22: for every string ParseReference accepts, parsing the String() of   *)
(* the result yields the same registry, repository and reference; an       *)
(* "oci://" prefix is stripped, a missing tag defaults to "latest", a      *)
(* digest is printed with "@" and a tag with ":"; a string with no "/"     *)
(* after the scheme is rejected.                                           *)
(***************************************************************************)
Parsed == pc = "ParseReference"

C22_ParseStableUnderPrinting ==
    Parsed =>
        /\ ~Contains(TrimPrefix(raw, OciScheme), <<"/">>) => ociRef.err
        /\ ~ociRef.err => ociAgain = ociRef

\* The parts of the claim that hold: no "/" is rejected, a missing tag is
\* "latest", and a tag or a sha256 digest on a one-scheme reference is stable.
C22_TagsAndSha256Stable ==
    Parsed =>
        /\ ~Contains(TrimPrefix(raw, OciScheme), <<"/">>) => ociRef.err
        /\ /\ ~ociRef.err
           /\ ~Contains(ociRef.Repository, <<":">>)
           /\ ~Contains(ociRef.Repository, <<"@">>)
           /\ ~Contains(ociRef.Registry, <<":">>)
           /\ \/ ~Contains(ociRef.Reference, <<":">>)
              \/ /\ HasPrefix(ociRef.Reference, Sha256Prefix)
                 /\ Contains(raw, <<"@">>)
           => ociAgain = ociRef

\* A sha512 digest: accepted, printed with ":", parsed differently.
C22_Sha512Digest ==
    /\ Parsed
    /\ raw = <<"r", "/", "a", "@", "s", "h", "a", "5", "1", "2", ":", "f">>
    /\ ~ociRef.err
    /\ ociAgain # ociRef

(***************************************************************************)
(* C23: every Declaration returned by WalkDeclarations has either          *)
(* non-empty children or a non-empty type, never both and never neither;   *)
(* a struct declaration with visible fields has children and an empty      *)
(* type.                                                                   *)
(***************************************************************************)
C23_DeclarationChildrenXorType ==
    pc = "WalkDeclarations" =>
        \A i \in DOMAIN declsOut :
            (Len(declsOut[i].Children) > 0) # (declsOut[i].Type # <<>>)

\* No declaration is left with neither children nor a type.
C23_DeclarationNeverNeither ==
    pc = "WalkDeclarations" =>
        \A i \in DOMAIN declsOut :
            Len(declsOut[i].Children) > 0 \/ declsOut[i].Type # <<>>

\* A struct declaration with visible fields carries both.
C23_ChildrenAndOpenStruct ==
    /\ pc = "WalkDeclarations"
    /\ \E i \in DOMAIN declsOut :
           Len(declsOut[i].Children) > 0 /\ declsOut[i].Type = OpenStruct

(***************************************************************************)
(* C24: every SchemaField in the tree returned by Bundle.ValuesSchema,     *)
(* after the "components" pattern filter has run, has non-empty children   *)
(* or a non-empty type: removing the empty [string]: {...} pattern child   *)
(* never leaves the components field with neither.                         *)
(***************************************************************************)
RECURSIVE HasChildrenOrType(_)
HasChildrenOrType(out) ==
    \A o \in SeqToSet(out) :
        /\ o.Children # <<>> \/ o.Type # <<>>
        /\ HasChildrenOrType(o.Children)

C24_FilteredFieldsKeepChildrenOrType ==
    pc = "ValuesSchema" => HasChildrenOrType(fieldsOut)

\* The filter removed the pattern and left the components of the bundle.
C24_PatternRemoved ==
    /\ pc = "ValuesSchema"
    /\ \E o \in SeqToSet(fieldsOut) :
           /\ o.Name = ComponentsName
           /\ Len(o.Children) >= 2
           /\ \A c \in SeqToSet(o.Children) : ~c.IsPattern

\* With a component in the bundle the filtered tree keeps the rule.
C24_WithComponents ==
    (pc = "ValuesSchema" /\ Len(LookupPath(LookupPath(value, <<"v", "a", "l", "u", "e", "s">>),
                                            ComponentsName).fields) > 0)
        => HasChildrenOrType(fieldsOut)

(***************************************************************************)
(* C25: in every field list the walker produces, at the top level and in   *)
(* every list of children, the regular fields appear in the iteration      *)
(* order of the Type Value, followed by all its pattern constraints in     *)
(* their iteration order; no pattern precedes a regular field and nothing  *)
(* is sorted or dropped but the hidden entries.                            *)
(***************************************************************************)
RECURSIVE InIterationOrder(_, _)
InIterationOrder(v, out) ==
    LET fs == SelectSeq(v.fields, LAMBDA e : ~CarriesOdin(e.value, "hidden"))
        ps == SelectSeq(v.pats, LAMBDA e : ~CarriesOdin(e.value, "hidden"))
    IN  /\ Len(out) = Len(fs) + Len(ps)
        /\ \A i \in DOMAIN fs :
               /\ out[i].Name = fs[i].name
               /\ ~out[i].IsPattern
               /\ out[i].Children # <<>> => InIterationOrder(fs[i].value, out[i].Children)
        /\ \A j \in DOMAIN ps :
               /\ out[Len(fs) + j].Name = ps[j].name
               /\ out[Len(fs) + j].IsPattern
               /\ out[Len(fs) + j].Children # <<>>
                      => InIterationOrder(ps[j].value, out[Len(fs) + j].Children)

C25_FieldsThenPatternsInOrder ==
    pc = "WalkSchema" => InIterationOrder(value, fieldsOut)

\* Two regular fields and a pattern at the top level, and a child list with
\* a field and a pattern below.
C25_Witness ==
    /\ pc = "WalkSchema"
    /\ Len(fieldsOut) >= 3
    /\ ~fieldsOut[1].IsPattern /\ ~fieldsOut[2].IsPattern
    /\ fieldsOut[Len(fieldsOut)].IsPattern
    /\ \E i \in DOMAIN fieldsOut :
           /\ Len(fieldsOut[i].Children) >= 2
           /\ fieldsOut[i].Children[Len(fieldsOut[i].Children)].IsPattern

(***************************************************************************)
(* C26: in mdbook mode without the suppress flag, SUMMARY.md has, for each *)
(* distinct package shorthand in order of first appearance among the       *)
(* resolved templates, exactly one top-level entry linking to the file of  *)
(* the group's first template, followed by exactly one indented sub-entry  *)
(* per template of the group in scan order; no SUMMARY.md is written in    *)
(* markdown-multi mode or when no-summary is set.                          *)
(***************************************************************************)
SummaryFiles ==
    {i \in DOMAIN files : files[i].path = JoinPath(<<OutputPath, SummaryName>>)}

PageLink(tmpl) ==
    shorthandName(tmpl.Package) \o <<"/">> \o TrimPrefix(tmpl.Name, <<"#">>) \o MdExt

Entry(indent, label, link) == [indent |-> indent, label |-> label, link |-> link]

\* The entries the index must have for the templates, group after group.
RECURSIVE ExpectedEntries(_)
ExpectedEntries(tmpls) ==
    IF Len(tmpls) = 0 THEN <<>>
    ELSE LET shorthand == shorthandName(tmpls[1].Package)
             group == SelectSeq(tmpls, LAMBDA t : shorthandName(t.Package) = shorthand)
             others == SelectSeq(tmpls, LAMBDA t : shorthandName(t.Package) # shorthand)
         IN  <<Entry(0, shorthand, PageLink(tmpls[1]))>>
                 \o [i \in DOMAIN group |->
                        Entry(2, TrimPrefix(group[i].Name, <<"#">>), PageLink(group[i]))]
                 \o ExpectedEntries(others)

\* The entries of a written index: its lines after the title and the blank.
EntriesOf(content) ==
    LET links == SelectSeq(content, LAMBDA l : l.kind = "link")
    IN  [i \in DOMAIN links |-> Entry(links[i].indent, links[i].text, links[i].type)]

SummaryRequested ==
    /\ normalizeFormat(opts.Format) = Mdbook
    /\ ~opts.NoSummary

C26_SummaryListsGroupsInOrder ==
    (Commanded /\ runErr = "none") =>
        IF SummaryRequested
        THEN /\ Cardinality(SummaryFiles) = 1
             /\ \A i \in SummaryFiles :
                    /\ Len(files[i].content) = 2 + Len(ExpectedEntries(resolved.tmpl))
                    /\ EntriesOf(files[i].content) = ExpectedEntries(resolved.tmpl)
        ELSE SummaryFiles = {}

\* Three templates of two packages, the second between two of the first, are
\* documented as a book.
C26_Witness ==
    /\ Commanded
    /\ runErr = "none"
    /\ SummaryRequested
    /\ Len(resolved.tmpl) = 3
    /\ shorthandName(resolved.tmpl[1].Package) = shorthandName(resolved.tmpl[3].Package)
    /\ shorthandName(resolved.tmpl[1].Package) # shorthandName(resolved.tmpl[2].Package)
    /\ SummaryFiles # {}

\* A book without index: no-summary is set.
C26_SuppressedWitness ==
    /\ Commanded
    /\ runErr = "none"
    /\ normalizeFormat(opts.Format) = Mdbook
    /\ opts.NoSummary
    /\ Len(files) >= 2
    /\ SummaryFiles = {}

(***************************************************************************)
(* C27: with expand=false WalkSchema returns on every schema, schemas with *)
(* self-referential or mutually recursive declarations included: no walk   *)
(* made without expansion ends in a stack overflow.                        *)
(***************************************************************************)
C27_CollapsedWalkReturns ==
    pc = "stack overflow" => expandOpt

\* The part of C27 that the walker does meet: a cycle in which every
\* reference names a definition (#Node, #Peer) is cut by the collapse.
C27_DefinitionCyclesReturn ==
    (pc = "stack overflow" /\ ~expandOpt) =>
        \E e \in SeqToSet(Select(value, TreePath).fields) : e.value = Unresolved(TreePath)

\* #Node: {next?: #Node} reached through first?: #Node and walked without
\* expansion.
C27_SelfReferenceCollapsed ==
    /\ pc = "WalkSchema" /\ ~expandOpt
    /\ value.defs # <<>>
    /\ value.fields[1].value = Unresolved(NodePath)
    /\ Select(value, NodePath).fields[1].value = Unresolved(NodePath)
    /\ fieldsOut[1].Type = NodeName

(***************************************************************************)
(* C28: ResolveReference returns exactly one of a template and an error;   *)
(* a returned template is one of the candidates passed in; the candidate   *)
(* sequence is the same after the call as before; with no candidates every *)
(* query gives an error.                                                   *)
(***************************************************************************)
C28_OneOfTemplateOrErrorFromCandidates ==
    [][(pc = "build" /\ pc' = "ResolveReference") =>
          /\ templates' = templates
          /\ (Len(resolved'.tmpl) = 1) # (resolved'.err.kind # "none")
          /\ Len(resolved'.tmpl) <= 1
          /\ \A i \in DOMAIN resolved'.tmpl :
                 \E j \in DOMAIN templates : templates[j] = resolved'.tmpl[i]
          /\ (templates = <<>> => resolved'.err.kind # "none")]_vars

\* A query answered with one of several candidates.
C28_Witness ==
    /\ pc = "ResolveReference"
    /\ Len(templates) > 1
    /\ Len(resolved.tmpl) = 1
    /\ resolved.err.kind = "none"
    /\ resolved.tmpl[1] # templates[1]

\* A query put to no candidates at all.
C28_EmptyWitness ==
    /\ pc = "ResolveReference"
    /\ templates = <<>>
    /\ resolved.tmpl = <<>>
    /\ resolved.err.kind = "no templates"

(***************************************************************************)
(* C29: the display form shorthand.Definition of every candidate, put as   *)
(* the query, resolves to a candidate with the same package shorthand and  *)
(* the same definition name without its sigil.                             *)
(***************************************************************************)
SameDisplayParts(a, b) ==
    /\ shorthandName(a.Package) = shorthandName(b.Package)
    /\ TrimPrefix(a.Name, <<"#">>) = TrimPrefix(b.Name, <<"#">>)

C29_DisplayFormResolvesToItsTemplate ==
    pc = "ResolveReference" =>
        \A i \in DOMAIN templates :
            reference = displayName(templates[i]) =>
                /\ Len(resolved.tmpl) = 1
                /\ SameDisplayParts(resolved.tmpl[1], templates[i])

\* The display form of a candidate does resolve, to some candidate.
C29_DisplayFormResolves ==
    pc = "ResolveReference" =>
        \A i \in DOMAIN templates :
            reference = displayName(templates[i]) => Len(resolved.tmpl) = 1

\* The display form of a candidate that differs from an earlier one only in
\* the case of its definition name resolves to the earlier one.
C29_CaseVariantShadowed ==
    /\ pc = "ResolveReference"
    /\ \E i \in DOMAIN templates :
           /\ reference = displayName(templates[i])
           /\ Len(resolved.tmpl) = 1
           /\ resolved.tmpl[1].Package = templates[i].Package
           /\ resolved.tmpl[1].Name # templates[i].Name

(***************************************************************************)
(* C30: a query that contains "/" and no ":#" is answered by               *)
(* ResolveReference with an error and no template, no definition name      *)
(* containing "/".                                                         *)
(***************************************************************************)
PathQuery(ref) == Contains(ref, <<"/">>) /\ ~Contains(ref, <<":", "#">>)

C30_PathQueryIsAnError ==
    (/\ pc = "ResolveReference"
     /\ PathQuery(reference)
     /\ \A i \in DOMAIN templates : ~Contains(templates[i].Name, <<"/">>)) =>
        /\ resolved.tmpl = <<>>
        /\ resolved.err.kind \in {"no templates", "no match", "ambiguous"}

\* The path of a package that holds exactly one candidate, put as the query.
C30_Witness ==
    /\ pc = "ResolveReference"
    /\ PathQuery(reference)
    /\ Len(templates) > 1
    /\ Len(SelectSeq(templates, LAMBDA t : t.Package = reference)) = 1
    /\ resolved.tmpl = <<>>
    /\ resolved.err.kind = "no match"

\* The docs command: when the package-path lookup finds no template, the
\* command ends in the resolver's error and has printed and written nothing.
C30_FallbackEndsInError ==
    (/\ Commanded
     /\ PathQuery(reference)
     /\ runErr \notin {"requires output", "no-summary is only valid with mdbook"}
     /\ Len(ResolvePackagePath(reference, templates)) = 0) =>
        /\ runErr \in {"no templates", "no match", "ambiguous"}
        /\ rendered = <<>>
        /\ files = <<>>
        /\ walked = <<>>

C30_FallbackWitness ==
    /\ Commanded
    /\ PathQuery(reference)
    /\ Len(templates) > 1
    /\ Len(ResolvePackagePath(reference, templates)) = 0
    /\ runErr = "no match"


====
